---- MODULE Spec2Model ----
(***************************************************************************)
(* A model of the tile-based action game in src/geme.py: the session      *)
(* controller (Game), the player, hostiles, containers, projectiles,      *)
(* pickups, merchants, doors, the camera and the notification list.        *)
(*                                                                         *)
(* One tick of Game.run is split at the calls it makes, in the order the   *)
(* code makes them: Game.events, then (Game.update) one step per sprite of *)
(* the snapshot that Group.update iterates, then the rest of Game.update,  *)
(* then the blocking pause / death screens.                                *)
(*                                                                         *)
(* Rectangles are pygame Rects with integer fields.  A float assigned to a *)
(* Rect field is truncated toward zero, which TruncDiv reproduces.         *)
(* A sprite's hit_rect is kept centred on its rect by every handler that   *)
(* moves the rect, so it is computed from the rect (HitRect).              *)
(***************************************************************************)
EXTENDS Integers, Sequences, FiniteSets, TLC

\* ---------------------------------------------------------------- constants
SCREEN_WIDTH == 1024
SCREEN_HEIGHT == 768
TILE_SIZE == 64
PLAYER_HEALTH == 100
PLAYER_SPEED == 5
PLAYER_DAMAGE == 10
PLAYER_ATTACK_COOLDOWN == 400
PLAYER_HIT_SIZE == 35
ENEMY_HEALTH == 50
ENEMY_DAMAGE == 10
ENEMY_SPEED == 2
ENEMY_AGGRO_RADIUS == 250
HEALTH_BOTTLE_HEAL_AMOUNT == 25
MERCHANT_ARROW_COST == 3
MERCHANT_ARROW_AMOUNT == 5
MERCHANT_POTION_COST == 5
MERCHANT_POTION_AMOUNT == 1
PROJECTILE_SPEED == 10
PROJECTILE_SIZE == 10
INITIAL_ARROWS == 5
INITIAL_HEALTH_BOTTLES == 1
ARROWS_PICKUP_AMOUNT == 5
ATTACK_FLAG_MS == 100
MERCHANT_INTERACTION_COOLDOWN == 500
DOOR_INTERACTION_COOLDOWN == 500
MAX_MESSAGES == 5
CAMERA_KILL_MARGIN == 200
\* velocities are kept in units of 1/VEL_SCALE pixel; DIAGONAL_FACTOR is 0.7071
VEL_SCALE == 10000
DIAGONAL_FACTOR == 7071

\* ------------------------------------------------------------------- bounds
\* number of ticks of Game.run explored (over all sessions)
MaxTicks == 3
\* number of sessions started (Game.new calls)
MaxSessions == 2
\* pygame.time.get_ticks() when the first session starts
StartMs == 1000
\* a frame at 60 fps, and a long frame (a stall)
FrameMs == 16
LongFrameMs == 501
\* the number of containers of the trading level
MarketPots == 5
\* the largest number of sword hits landed before a duel is taken up
MaxDuelHits == 4
\* the largest number of ticks an arrow has flown when a volley is taken up,
\* and by how many ticks the flight may be shorter
MaxFlight == 48
FlightWindow == 2
MaxChase == 128
MaxEditorEvents == 7
SmallMap == 2

\* ----------------------------------------------------------------- geometry
Rect(x, y, w, h) == [x |-> x, y |-> y, w |-> w, h |-> h]

\* pygame.Rect.colliderect
colliderect(a, b) ==
    /\ a.x < b.x + b.w
    /\ a.y < b.y + b.h
    /\ a.x + a.w > b.x
    /\ a.y + a.h > b.y

\* pygame.Rect.inflate: grows around the centre
inflate(r, dw, dh) == Rect(r.x - dw \div 2, r.y - dh \div 2, r.w + dw, r.h + dh)

\* int(n / d), the truncation toward zero of a float assigned to a Rect field
TruncDiv(n, d) == IF n >= 0 THEN n \div d ELSE -((-n) \div d)

\* the TILE_SIZE square surface rect of a sprite placed at topleft (x, y)
SpriteRect(s) == Rect(s.x, s.y, TILE_SIZE, TILE_SIZE)

\* PLAYER_HIT_RECT.copy() with hit_rect.center = rect.center
HitRect(s) ==
    Rect(s.x + TILE_SIZE \div 2 - PLAYER_HIT_SIZE \div 2,
         s.y + TILE_SIZE \div 2 - PLAYER_HIT_SIZE \div 2,
         PLAYER_HIT_SIZE, PLAYER_HIT_SIZE)

\* an Item's rect: a TILE_SIZE // 2 square, stored by its topleft
ItemRect(it) == Rect(it.x, it.y, TILE_SIZE \div 2, TILE_SIZE \div 2)

\* a Projectile's rect
ProjRect(p) == Rect(p.x, p.y, PROJECTILE_SIZE, PROJECTILE_SIZE)

Range(s) == { s[i] : i \in DOMAIN s }

\* F applied to the value of x: sequential composition of two statements,
\* the first evaluated once
Do(x, F(_)) == CHOOSE r \in { F(v) : v \in { x } } : TRUE

\* ------------------------------------------------------------------- levels
\* World descriptors (level.json), in tile coordinates.
Tile(x, y) == [x |-> x, y |-> y]
WallTile(x, y, w, h) == [x |-> x, y |-> y, w |-> w, h |-> h]

EmptyLevel ==
    [player_spawn |-> Tile(1, 1), walls |-> << >>, pots |-> << >>,
     enemies |-> << >>, merchants |-> << >>, doors |-> << >>, keys |-> << >>]

\* five hostiles stacked on the spawn tile, a merchant on the next tile
LevelAmbush ==
    [EmptyLevel EXCEPT
        !.enemies = << Tile(1, 1), Tile(1, 1), Tile(1, 1), Tile(1, 1), Tile(1, 1) >>,
        !.merchants = << Tile(2, 1) >>]

\* a key on the spawn tile, a door to the right and one far away, a container
\* below, one hostile on the spawn tile
LevelVault ==
    [EmptyLevel EXCEPT
        !.keys = << Tile(1, 1) >>,
        !.doors = << Tile(2, 1), Tile(5, 5) >>,
        !.pots = << Tile(1, 2) >>,
        !.enemies = << Tile(1, 1) >>]

\* the spawn tile is a wall tile and holds a container; a two-tile wall runs
\* from the tile on the left over the spawn tile, a wall lies above, a door
\* (and no key) to the right
LevelBuried ==
    [EmptyLevel EXCEPT
        !.walls = << WallTile(1, 1, 1, 1), WallTile(0, 1, 2, 1), WallTile(1, 0, 1, 1) >>,
        !.pots = << Tile(1, 1) >>,
        !.doors = << Tile(2, 1) >>]

\* four hostiles below and to the right of the spawn tile and a merchant on
\* its right; no two rects overlap
LevelCrowd ==
    [EmptyLevel EXCEPT
        !.player_spawn = Tile(0, 1),
        !.enemies = << Tile(2, 2), Tile(1, 3), Tile(2, 3), Tile(0, 2) >>,
        !.merchants = << Tile(1, 1) >>]

\* a two-tile wall below the spawn tile and a hostile four tiles to its right,
\* just outside the aggro radius
LevelRim ==
    [EmptyLevel EXCEPT
        !.walls = << WallTile(1, 2, 2, 1) >>,
        !.enemies = << Tile(5, 1) >>]

Levels == { LevelAmbush, LevelVault, LevelBuried, LevelCrowd, LevelRim }

\* ------------------------------------------------------------------- inputs
\* What the input devices deliver in one tick: the KEYDOWN / QUIT event the
\* event queue holds, the keys pygame.key.get_pressed() reports, and the time
\* the frame took.
Input(event, pressed, dt) == [event |-> event, pressed |-> pressed, dt |-> dt]
NoInput == Input("NONE", {}, FrameMs)
KeyNames == { "LEFT", "RIGHT", "UP", "DOWN", "SPACE", "1", "2", "h", "e", "RETURN", "ESCAPE" }
TickInputs ==
    { Input(k, {k}, FrameMs) : k \in KeyNames }
    \cup { NoInput, Input("NONE", {}, LongFrameMs), Input("QUIT", {}, FrameMs),
           Input("NONE", {"DOWN", "RIGHT"}, FrameMs) }

\* -------------------------------------------------------------------- state
VARIABLES
    pc,           \* where control is: start_screen, events, sprites, update_rest,
                  \* screens, pause_screen, death_screen, death_buttons, done
    stack,        \* return points of the death screens whose Respawn called Game.new
    level_file,   \* the content of level.json
    input,        \* the input of the tick in progress
    now,          \* pygame.time.get_ticks()
    game,         \* Game.running, playing, paused, game_over
    player,       \* the Player sprite
    ui,           \* UI.messages, merchant_options, selected_merchant_option
    enemies,      \* Enemy sprites in creation order; alive = member of the groups
    pots,         \* Pot sprites
    doors,        \* Door sprites
    merchants,    \* Merchant sprites
    items,        \* Item sprites
    projectiles,  \* Projectile sprites
    camera,       \* Camera.camera.topleft
    todo,         \* the sprites Group.update has still to update in this tick
    hist,         \* history: ticks run, sessions started, and per session the
                  \* number of Game.update calls, of game-over transitions and
                  \* of death notifications
    editor        \* the LevelEditor object of level_editor.py

vars == << pc, stack, level_file, input, now, game, player, ui, enemies, pots,
           doors, merchants, items, projectiles, camera, todo, hist, editor >>

\* The part of the state the handlers read and write, as one record.
World ==
    [now |-> now, game |-> game, player |-> player, ui |-> ui,
     enemies |-> enemies, pots |-> pots, doors |-> doors,
     merchants |-> merchants, items |-> items, projectiles |-> projectiles,
     camera |-> camera, level_data |-> level_file, hist |-> hist]

Install(w) ==
    /\ now' = w.now
    /\ game' = w.game
    /\ player' = w.player
    /\ ui' = w.ui
    /\ enemies' = w.enemies
    /\ pots' = w.pots
    /\ doors' = w.doors
    /\ merchants' = w.merchants
    /\ items' = w.items
    /\ projectiles' = w.projectiles
    /\ camera' = w.camera
    /\ hist' = w.hist

\* Game.walls: Wall sprites are never changed after Game.new
Walls(w) ==
    [i \in DOMAIN w.level_data.walls |->
        Rect(w.level_data.walls[i].x * TILE_SIZE, w.level_data.walls[i].y * TILE_SIZE,
             w.level_data.walls[i].w * TILE_SIZE, w.level_data.walls[i].h * TILE_SIZE)]

Alive(seq) == SelectSeq(seq, LAMBDA s : s.alive)

\* --------------------------------------------------------------- UI messages
\* UI.add_message without the pop(0) of lines 524-525
add_message_unbounded(w, text) == [w EXCEPT !.ui.messages = Append(@, text)]

\* The message's timestamp is read by the draw pass only and is not kept.
add_message(w, text) ==
    LET appended == Append(w.ui.messages, text)
    IN [w EXCEPT !.ui.messages =
            IF Len(appended) > MAX_MESSAGES THEN Tail(appended) ELSE appended]

set_merchant_options(w, options) ==
    [w EXCEPT !.ui.merchant_options = options, !.ui.selected_merchant_option = 0]

clear_merchant_options(w) ==
    [w EXCEPT !.ui.merchant_options = << >>, !.ui.selected_merchant_option = 0]

\* ----------------------------------------------------------- construction
NoTarget == [kind |-> "none", id |-> 0]

NewPlayer(x, y) ==
    [x |-> x, y |-> y, health |-> PLAYER_HEALTH, coins |-> 0,
     arrows |-> INITIAL_ARROWS, health_bottles |-> INITIAL_HEALTH_BOTTLES, keys |-> 0,
     vx |-> 0, vy |-> 0, direction |-> "down", equipped_item |-> "sword",
     attacking |-> FALSE, last_attack_time |-> 0, can_interact |-> FALSE,
     interact_target |-> NoTarget, dialogue_active |-> FALSE]

NewEnemy(i, x, y) == [id |-> i, x |-> x, y |-> y, health |-> ENEMY_HEALTH, alive |-> TRUE]

\* destroyed counts the calls of Pot.destroy on this pot
NewPot(i, x, y) == [id |-> i, x |-> x, y |-> y, alive |-> TRUE, destroyed |-> 0]

\* keys_used counts the keys this door has consumed
NewDoor(i, x, y) == [id |-> i, x |-> x, y |-> y, alive |-> TRUE, keys_used |-> 0]

NewMerchant(i, x, y) ==
    [id |-> i, x |-> x, y |-> y, dialogue_open |-> FALSE, last_interact_time |-> 0]

\* an Item centred on pos; applied counts the times its effect was applied,
\* pot is the container that dropped it (0 for a key of the level)
NewItem(i, cx, cy, type, pot) ==
    [id |-> i, type |-> type, x |-> cx - (TILE_SIZE \div 2) \div 2,
     y |-> cy - (TILE_SIZE \div 2) \div 2, alive |-> TRUE, applied |-> 0, pot |-> pot]

\* Projectile.__init__ with the speed of the player
NewProjectile_slow(i, cx, cy, direction) ==
    [id |-> i, x |-> cx - PROJECTILE_SIZE \div 2, y |-> cy - PROJECTILE_SIZE \div 2,
     vx |-> CASE direction = "left" -> -PLAYER_SPEED
              [] direction = "right" -> PLAYER_SPEED
              [] OTHER -> 0,
     vy |-> CASE direction = "up" -> -PLAYER_SPEED
              [] direction = "down" -> PLAYER_SPEED
              [] OTHER -> 0,
     alive |-> TRUE]

NewProjectile(i, cx, cy, direction) ==
    [id |-> i, x |-> cx - PROJECTILE_SIZE \div 2, y |-> cy - PROJECTILE_SIZE \div 2,
     vx |-> CASE direction = "left" -> -PROJECTILE_SPEED
              [] direction = "right" -> PROJECTILE_SPEED
              [] OTHER -> 0,
     vy |-> CASE direction = "up" -> -PROJECTILE_SPEED
              [] direction = "down" -> PROJECTILE_SPEED
              [] OTHER -> 0,
     alive |-> TRUE]

NoHist ==
    [ticks |-> 0, sessions |-> 0, updates |-> 0, game_overs |-> 0, death_messages |-> 0]

\* Game.new without the "self.projectiles = pygame.sprite.Group()" of line 682
new_keeping_projectiles(w, level) ==
    [w EXCEPT
        !.level_data = level,
        !.camera = [x |-> 0, y |-> 0],
        !.player = NewPlayer(level.player_spawn.x * TILE_SIZE, level.player_spawn.y * TILE_SIZE),
        !.enemies = [i \in DOMAIN level.enemies |->
            NewEnemy(i, level.enemies[i].x * TILE_SIZE, level.enemies[i].y * TILE_SIZE)],
        !.pots = [i \in DOMAIN level.pots |->
            NewPot(i, level.pots[i].x * TILE_SIZE, level.pots[i].y * TILE_SIZE)],
        !.merchants = [i \in DOMAIN level.merchants |->
            NewMerchant(i, level.merchants[i].x * TILE_SIZE, level.merchants[i].y * TILE_SIZE)],
        !.doors = [i \in DOMAIN level.doors |->
            NewDoor(i, level.doors[i].x * TILE_SIZE, level.doors[i].y * TILE_SIZE)],
        !.items = [i \in DOMAIN level.keys |->
            NewItem(i, level.keys[i].x * TILE_SIZE + TILE_SIZE \div 2,
                    level.keys[i].y * TILE_SIZE + TILE_SIZE \div 2, "key", 0)],
        !.game.playing = TRUE,
        !.game.paused = FALSE,
        !.game.game_over = FALSE,
        !.hist.sessions = @ + 1,
        !.hist.updates = 0,
        !.hist.game_overs = 0,
        !.hist.death_messages = 0]

\* Game.new up to the call of Game.run
new(w, level) ==
    [w EXCEPT
        !.level_data = level,
        !.camera = [x |-> 0, y |-> 0],
        !.player = NewPlayer(level.player_spawn.x * TILE_SIZE, level.player_spawn.y * TILE_SIZE),
        !.enemies = [i \in DOMAIN level.enemies |->
            NewEnemy(i, level.enemies[i].x * TILE_SIZE, level.enemies[i].y * TILE_SIZE)],
        !.pots = [i \in DOMAIN level.pots |->
            NewPot(i, level.pots[i].x * TILE_SIZE, level.pots[i].y * TILE_SIZE)],
        !.merchants = [i \in DOMAIN level.merchants |->
            NewMerchant(i, level.merchants[i].x * TILE_SIZE, level.merchants[i].y * TILE_SIZE)],
        !.doors = [i \in DOMAIN level.doors |->
            NewDoor(i, level.doors[i].x * TILE_SIZE, level.doors[i].y * TILE_SIZE)],
        !.items = [i \in DOMAIN level.keys |->
            NewItem(i, level.keys[i].x * TILE_SIZE + TILE_SIZE \div 2,
                    level.keys[i].y * TILE_SIZE + TILE_SIZE \div 2, "key", 0)],
        !.projectiles = << >>,
        !.game.playing = TRUE,
        !.game.paused = FALSE,
        !.game.game_over = FALSE,
        !.hist.sessions = @ + 1,
        !.hist.updates = 0,
        !.hist.game_overs = 0,
        !.hist.death_messages = 0]

\* ------------------------------------------------------------- containers
LootOptions == << "arrows", "coin", "health_bottle" >>

LootText(loot) ==
    CASE loot = "arrows" -> "Pot dropped arrows!"
      [] loot = "coin" -> "Pot dropped coin!"
      [] loot = "health_bottle" -> "Pot dropped health bottle!"

\* Pot.destroy without the self.kill() of line 361
PotDestroy_unkilled(w, i, chosen_loot) ==
    LET pot == w.pots[i]
        item == NewItem(Len(w.items) + 1, pot.x + TILE_SIZE \div 2,
                        pot.y + TILE_SIZE \div 2, chosen_loot, pot.id)
    IN [add_message([w EXCEPT !.items = Append(@, item)], LootText(chosen_loot))
          EXCEPT !.pots[i].destroyed = @ + 1]

\* Pot.destroy on pot i; chosen_loot is the outcome of random.choices
PotDestroy(w, i, chosen_loot) ==
    LET pot == w.pots[i]
        item == NewItem(Len(w.items) + 1, pot.x + TILE_SIZE \div 2,
                        pot.y + TILE_SIZE \div 2, chosen_loot, pot.id)
    IN [add_message([w EXCEPT !.items = Append(@, item)], LootText(chosen_loot))
          EXCEPT !.pots[i].alive = FALSE, !.pots[i].destroyed = @ + 1]

\* Pot.destroy on each pot of ids, in order; draws[i] is pot i's loot draw
RECURSIVE DestroyPots(_, _, _)
DestroyPots(w, ids, draws) ==
    IF ids = << >> THEN w
    ELSE Do(PotDestroy(w, Head(ids), draws[Head(ids)]),
            LAMBDA w1 : DestroyPots(w1, Tail(ids), draws))

\* ----------------------------------------------------------------- hostiles
\* Enemy.take_damage with "health < 0" in place of "health <= 0"
EnemyTakeDamage_strict(e, amount) ==
    LET h == e.health - amount
    IN [e EXCEPT !.health = h, !.alive = IF h < 0 THEN FALSE ELSE @]

\* Enemy.take_damage
EnemyTakeDamage(e, amount) ==
    LET h == e.health - amount
    IN [e EXCEPT !.health = h, !.alive = IF h <= 0 THEN FALSE ELSE @]

\* ------------------------------------------------------------------- player
\* Player.take_damage
PlayerTakeDamage(w, amount) ==
    LET h == w.player.health - amount
    IN IF h <= 0
       THEN [w EXCEPT !.player.health = 0, !.game.playing = FALSE]
       ELSE [w EXCEPT !.player.health = h]

\* Player.use_health_bottle without the min(PLAYER_HEALTH, ...) of line 188
use_health_bottle_unclamped(w) ==
    IF w.player.health_bottles > 0
    THEN IF w.player.health < PLAYER_HEALTH
         THEN add_message(
                 [w EXCEPT !.player.health_bottles = @ - 1,
                           !.player.health = @ + HEALTH_BOTTLE_HEAL_AMOUNT],
                 "Healed for 25 HP.")
         ELSE add_message(w, "Health is already full.")
    ELSE add_message(w, "No health bottles!")

\* Player.use_health_bottle without the health < PLAYER_HEALTH test of line 186
use_health_bottle_unguarded(w) ==
    IF w.player.health_bottles > 0
    THEN LET healed == w.player.health + HEALTH_BOTTLE_HEAL_AMOUNT
         IN add_message(
               [w EXCEPT !.player.health_bottles = @ - 1,
                         !.player.health =
                             IF healed > PLAYER_HEALTH THEN PLAYER_HEALTH ELSE healed],
               "Healed for 25 HP.")
    ELSE add_message(w, "No health bottles!")

\* Player.use_health_bottle
use_health_bottle(w) ==
    IF w.player.health_bottles > 0
    THEN IF w.player.health < PLAYER_HEALTH
         THEN LET healed == w.player.health + HEALTH_BOTTLE_HEAL_AMOUNT
              IN add_message(
                    [w EXCEPT !.player.health_bottles = @ - 1,
                              !.player.health =
                                  IF healed > PLAYER_HEALTH THEN PLAYER_HEALTH ELSE healed],
                    "Healed for 25 HP.")
         ELSE add_message(w, "Health is already full.")
    ELSE add_message(w, "No health bottles!")

\* Player.get_attack_rect if the hitbox were centred on the player
get_attack_rect_centred(p) == Rect(p.x, p.y, TILE_SIZE, TILE_SIZE)

\* Player.get_attack_rect
get_attack_rect(p) ==
    CASE p.direction = "up" -> Rect(p.x, p.y - TILE_SIZE, TILE_SIZE, TILE_SIZE)
      [] p.direction = "down" -> Rect(p.x, p.y + TILE_SIZE, TILE_SIZE, TILE_SIZE)
      [] p.direction = "left" -> Rect(p.x - TILE_SIZE, p.y, TILE_SIZE, TILE_SIZE)
      [] p.direction = "right" -> Rect(p.x + TILE_SIZE, p.y, TILE_SIZE, TILE_SIZE)

\* the sword branch of Player.attack
SwordAttack(w, draws) ==
    LET attack_rect == get_attack_rect(w.player)
        struck == SelectSeq(Alive(w.pots),
                            LAMBDA pot : colliderect(attack_rect, SpriteRect(pot)))
    IN Do([add_message(w, "Swish!") EXCEPT !.enemies =
             [i \in DOMAIN @ |->
                IF @[i].alive /\ colliderect(attack_rect, HitRect(@[i]))
                THEN EnemyTakeDamage(@[i], PLAYER_DAMAGE) ELSE @[i]]],
          LAMBDA w1 : DestroyPots(w1, [k \in DOMAIN struck |-> struck[k].id], draws))

\* the bow branch of Player.attack without the "self.arrows -= 1" of line 164
BowAttack_free(w) ==
    IF w.player.arrows > 0
    THEN add_message(
            [w EXCEPT !.projectiles = Append(@,
                          NewProjectile(Len(@) + 1, w.player.x + TILE_SIZE \div 2,
                                        w.player.y + TILE_SIZE \div 2, w.player.direction))],
            "Thwip!")
    ELSE add_message(w, "Out of arrows!")

\* the bow branch of Player.attack
BowAttack(w) ==
    IF w.player.arrows > 0
    THEN add_message(
            [w EXCEPT !.player.arrows = @ - 1,
                      !.projectiles = Append(@,
                          NewProjectile(Len(@) + 1, w.player.x + TILE_SIZE \div 2,
                                        w.player.y + TILE_SIZE \div 2, w.player.direction))],
            "Thwip!")
    ELSE add_message(w, "Out of arrows!")

\* Player.attack
attack(w, draws) ==
    IF w.now - w.player.last_attack_time > PLAYER_ATTACK_COOLDOWN
    THEN Do([w EXCEPT !.player.last_attack_time = w.now, !.player.attacking = TRUE],
            LAMBDA w1 : IF w1.player.equipped_item = "sword"
                        THEN SwordAttack(w1, draws) ELSE BowAttack(w1))
    ELSE w

\* ---------------------------------------------------------------- merchants
MerchantOptions == << "Arrows (3 Coins)", "Potion (5 Coins)", "Exit" >>

\* Merchant.interact
MerchantInteract(w, i) ==
    IF w.now - w.merchants[i].last_interact_time > MERCHANT_INTERACTION_COOLDOWN
    THEN LET open == ~w.merchants[i].dialogue_open
         IN Do([w EXCEPT !.merchants[i].last_interact_time = w.now,
                         !.merchants[i].dialogue_open = open,
                         !.player.dialogue_active = open],
               LAMBDA w1 :
                 IF open
                 THEN set_merchant_options(
                         add_message(w1, "Hello, traveler! What do you need?"),
                         MerchantOptions)
                 ELSE clear_merchant_options(add_message(w1, "Farewell!")))
    ELSE w

\* -------------------------------------------------------------------- doors
\* Door.interact without the "player.keys -= 1" of line 479
DoorInteract_keeps_key(w, i) ==
    IF w.now - w.player.last_attack_time > DOOR_INTERACTION_COOLDOWN
    THEN IF w.player.keys > 0
         THEN [add_message([w EXCEPT !.player.last_attack_time = w.now],
                           "The door creaks open!")
                 EXCEPT !.doors[i].alive = FALSE, !.doors[i].keys_used = @ + 1]
         ELSE add_message([w EXCEPT !.player.last_attack_time = w.now],
                          "This door is locked. You need a key.")
    ELSE w

\* Door.interact without the "player.keys > 0" test of line 478
DoorInteract_unchecked(w, i) ==
    IF w.now - w.player.last_attack_time > DOOR_INTERACTION_COOLDOWN
    THEN [add_message([w EXCEPT !.player.last_attack_time = w.now,
                                !.player.keys = @ - 1],
                      "The door creaks open!")
            EXCEPT !.doors[i].alive = FALSE, !.doors[i].keys_used = @ + 1]
    ELSE w

\* Door.interact without the cooldown test of line 477
DoorInteract_unthrottled(w, i) ==
    IF w.player.keys > 0
    THEN [add_message([w EXCEPT !.player.last_attack_time = w.now,
                                !.player.keys = @ - 1],
                      "The door creaks open!")
            EXCEPT !.doors[i].alive = FALSE, !.doors[i].keys_used = @ + 1]
    ELSE add_message([w EXCEPT !.player.last_attack_time = w.now],
                     "This door is locked. You need a key.")

\* Door.interact
DoorInteract(w, i) ==
    IF w.now - w.player.last_attack_time > DOOR_INTERACTION_COOLDOWN
    THEN IF w.player.keys > 0
         THEN [add_message([w EXCEPT !.player.last_attack_time = w.now,
                                     !.player.keys = @ - 1],
                           "The door creaks open!")
                 EXCEPT !.doors[i].alive = FALSE, !.doors[i].keys_used = @ + 1]
         ELSE add_message([w EXCEPT !.player.last_attack_time = w.now],
                          "This door is locked. You need a key.")
    ELSE w

\* interact_target.interact(player)
Interact(w, target) ==
    CASE target.kind = "merchant" -> MerchantInteract(w, target.id)
      [] target.kind = "door" -> DoorInteract(w, target.id)
      [] OTHER -> w

\* ------------------------------------------------------------ player update
\* the rects of the sprites of Game.walls, Game.pots and Game.doors that a
\* rect collides with, in the order spritecollide returns them
ObstacleHits(w, r) ==
    LET ws == Walls(w)
        ps == Alive(w.pots)
        ds == Alive(w.doors)
    IN SelectSeq(ws, LAMBDA o : colliderect(r, o))
       \o SelectSeq([k \in DOMAIN ps |-> SpriteRect(ps[k])], LAMBDA o : colliderect(r, o))
       \o SelectSeq([k \in DOMAIN ds |-> SpriteRect(ds[k])], LAMBDA o : colliderect(r, o))

\* Player.collide_with_obstacles('x')
PlayerCollideX(w) ==
    LET hits == ObstacleHits(w, SpriteRect(w.player))
    IN IF hits = << >> THEN w
       ELSE [w EXCEPT
               !.player.x = IF w.player.vx > 0 THEN hits[1].x - TILE_SIZE
                            ELSE IF w.player.vx < 0 THEN hits[1].x + hits[1].w
                            ELSE @,
               !.player.vx = 0]

\* Player.collide_with_obstacles('y')
PlayerCollideY(w) ==
    LET hits == ObstacleHits(w, SpriteRect(w.player))
    IN IF hits = << >> THEN w
       ELSE [w EXCEPT
               !.player.y = IF w.player.vy > 0 THEN hits[1].y - TILE_SIZE
                            ELSE IF w.player.vy < 0 THEN hits[1].y + hits[1].h
                            ELSE @,
               !.player.vy = 0]

\* Player.move(dx, dy), dx and dy in units of 1/VEL_SCALE pixel
PlayerMove(w, dx, dy) ==
    Do(IF dx # 0
       THEN Do([w EXCEPT !.player.x = TruncDiv(@ * VEL_SCALE + dx, VEL_SCALE)],
               PlayerCollideX)
       ELSE w,
       LAMBDA w1 :
         IF dy # 0
         THEN Do([w1 EXCEPT !.player.y = TruncDiv(@ * VEL_SCALE + dy, VEL_SCALE)],
                 PlayerCollideY)
         ELSE w1)

\* the movement keys of Player.get_input
MovementInput(p, pressed) ==
    LET p1 == IF "LEFT" \in pressed
              THEN [p EXCEPT !.vx = -PLAYER_SPEED * VEL_SCALE, !.direction = "left"] ELSE p
        p2 == IF "RIGHT" \in pressed
              THEN [p1 EXCEPT !.vx = PLAYER_SPEED * VEL_SCALE, !.direction = "right"] ELSE p1
        p3 == IF "UP" \in pressed
              THEN [p2 EXCEPT !.vy = -PLAYER_SPEED * VEL_SCALE, !.direction = "up"] ELSE p2
        p4 == IF "DOWN" \in pressed
              THEN [p3 EXCEPT !.vy = PLAYER_SPEED * VEL_SCALE, !.direction = "down"] ELSE p3
    IN IF p4.vx # 0 /\ p4.vy # 0
       THEN [p4 EXCEPT !.vx = (@ * DIAGONAL_FACTOR) \div VEL_SCALE,
                       !.vy = (@ * DIAGONAL_FACTOR) \div VEL_SCALE]
       ELSE p4

\* the interaction key of Player.get_input
InteractInput(w, pressed) ==
    IF "e" \in pressed /\ w.player.can_interact
    THEN [Interact(w, w.player.interact_target) EXCEPT !.player.can_interact = FALSE]
    ELSE w

\* the action keys of Player.get_input
ActionInput(w, pressed, draws) ==
    Do(IF "SPACE" \in pressed THEN attack(w, draws) ELSE w, LAMBDA w2 :
    Do(IF "1" \in pressed
       THEN add_message([w2 EXCEPT !.player.equipped_item = "sword"], "Equipped Sword.")
       ELSE w2, LAMBDA w3 :
    Do(IF "2" \in pressed
       THEN add_message([w3 EXCEPT !.player.equipped_item = "bow"], "Equipped Bow.")
       ELSE w3, LAMBDA w4 :
    Do(IF "h" \in pressed THEN use_health_bottle(w4) ELSE w4, LAMBDA w5 :
    InteractInput(w5, pressed)))))

\* Player.get_input
get_input(w, pressed, draws) ==
    IF w.player.dialogue_active
    THEN [w EXCEPT !.player.vx = 0, !.player.vy = 0]
    ELSE Do([w EXCEPT !.player = MovementInput([@ EXCEPT !.vx = 0, !.vy = 0], pressed)],
            LAMBDA w1 : ActionInput(w1, pressed, draws))

\* the proximity check at the end of Player.update
InteractionTarget(w) ==
    LET r == SpriteRect(w.player)
        ms == SelectSeq(w.merchants,
                 LAMBDA m : colliderect(r, inflate(SpriteRect(m), TILE_SIZE, TILE_SIZE)))
        ds == SelectSeq(Alive(w.doors),
                 LAMBDA d : colliderect(r, inflate(SpriteRect(d), TILE_SIZE, TILE_SIZE)))
    IN IF ds # << >> THEN [kind |-> "door", id |-> ds[1].id]
       ELSE IF ms # << >> THEN [kind |-> "merchant", id |-> ms[1].id]
       ELSE NoTarget

\* the end of Player.update if a target, once set, were kept
SetInteractionTarget_stale(w) ==
    LET target == IF w.player.interact_target # NoTarget
                  THEN w.player.interact_target ELSE InteractionTarget(w)
    IN [w EXCEPT !.player.can_interact = (target # NoTarget),
                 !.player.interact_target = target]

\* the interaction target Player.update ends with
SetInteractionTarget(w) ==
    LET target == InteractionTarget(w)
    IN [w EXCEPT !.player.can_interact = (target # NoTarget),
                 !.player.interact_target = target]

\* Player.update
PlayerUpdate(w, pressed, draws) ==
    Do(get_input(w, pressed, draws), LAMBDA w1 :
    Do(PlayerMove(w1, w1.player.vx, w1.player.vy), LAMBDA w2 :
    Do(IF w2.player.attacking /\ w2.now - w2.player.last_attack_time > ATTACK_FLAG_MS
       THEN [w2 EXCEPT !.player.attacking = FALSE] ELSE w2,
       SetInteractionTarget)))

\* ------------------------------------------------------------ hostile update
\* int(x + ENEMY_SPEED * d / hypot(d, o)) for integers x, d, o: the rect
\* coordinate after "self.rect.x += self.vx"
EnemyAxisStep(x, d, o) ==
    IF d = 0 THEN x
    ELSE IF o = 0 THEN (IF d > 0 THEN x + ENEMY_SPEED ELSE x - ENEMY_SPEED)
    ELSE
      LET \* |v| >= 1 iff ENEMY_SPEED^2 * d^2 >= d^2 + o^2
          big == ENEMY_SPEED * ENEMY_SPEED * d * d >= d * d + o * o
          floorv == IF d > 0 THEN (IF big THEN 1 ELSE 0)
                    ELSE (IF big THEN -2 ELSE -1)
          f == x + floorv
      IN IF f >= 0 THEN f ELSE f + 1

\* the rects an Enemy's collide_with_obstacles collects: walls, pots, doors,
\* then the other members of Game.enemies
EnemyHits(w, i) ==
    LET r == SpriteRect(w.enemies[i])
        others == SelectSeq(w.enemies, LAMBDA e : e.alive /\ e.id # i)
    IN ObstacleHits(w, r)
       \o SelectSeq([k \in DOMAIN others |-> SpriteRect(others[k])],
                    LAMBDA o : colliderect(r, o))

\* Enemy.collide_with_obstacles('x'), sx the sign of self.vx: the first hit
\* moves the rect and zeroes vx, so the later hits of the loop change nothing
EnemyCollideX(w, i, sx) ==
    LET hits == EnemyHits(w, i)
    IN IF hits = << >> THEN w
       ELSE [w EXCEPT !.enemies[i].x =
                IF sx > 0 THEN hits[1].x - TILE_SIZE
                ELSE IF sx < 0 THEN hits[1].x + hits[1].w
                ELSE @]

\* Enemy.collide_with_obstacles('y')
EnemyCollideY(w, i, sy) ==
    LET hits == EnemyHits(w, i)
    IN IF hits = << >> THEN w
       ELSE [w EXCEPT !.enemies[i].y =
                IF sy > 0 THEN hits[1].y - TILE_SIZE
                ELSE IF sy < 0 THEN hits[1].y + hits[1].h
                ELSE @]

Sign(n) == IF n > 0 THEN 1 ELSE IF n < 0 THEN -1 ELSE 0

\* Enemy.move_towards_player
move_towards_player(w, i) ==
    LET e == w.enemies[i]
        dx == w.player.x - e.x
        dy == w.player.y - e.y
    IN Do([w EXCEPT !.enemies[i].x = EnemyAxisStep(e.x, dx, dy)], LAMBDA w1 :
       Do(EnemyCollideX(w1, i, Sign(dx)), LAMBDA w2 :
       Do([w2 EXCEPT !.enemies[i].y = EnemyAxisStep(e.y, dy, dx)], LAMBDA w3 :
       EnemyCollideY(w3, i, Sign(dy)))))

\* player_dist < ENEMY_AGGRO_RADIUS
InAggroRange(w, i) ==
    LET dx == w.player.x - w.enemies[i].x
        dy == w.player.y - w.enemies[i].y
    IN dx * dx + dy * dy < ENEMY_AGGRO_RADIUS * ENEMY_AGGRO_RADIUS

\* Enemy.update if the contact test of line 332 compared the sprites' rects
EnemyUpdate_rect(w, i) ==
    Do(IF InAggroRange(w, i) /\ ~w.player.dialogue_active
       THEN move_towards_player(w, i) ELSE w,
       LAMBDA w1 :
         IF colliderect(SpriteRect(w1.enemies[i]), SpriteRect(w1.player))
         THEN PlayerTakeDamage(w1, ENEMY_DAMAGE)
         ELSE w1)

\* Enemy.update
EnemyUpdate(w, i) ==
    Do(IF InAggroRange(w, i) /\ ~w.player.dialogue_active
       THEN move_towards_player(w, i) ELSE w,
       LAMBDA w1 :
         IF colliderect(HitRect(w1.enemies[i]), HitRect(w1.player))
         THEN PlayerTakeDamage(w1, ENEMY_DAMAGE)
         ELSE w1)

\* --------------------------------------------------------- projectile update
\* Camera.get_rect
CameraGetRect(w) == Rect(-w.camera.x, -w.camera.y, SCREEN_WIDTH, SCREEN_HEIGHT)

\* Projectile.update without the off-screen test of lines 392-393
ProjectileUpdate_unbounded(w, j, draws) ==
    LET p == [w.projectiles[j] EXCEPT !.x = @ + w.projectiles[j].vx,
                                      !.y = @ + w.projectiles[j].vy]
        r == ProjRect(p)
        hit_enemy == \E i \in DOMAIN w.enemies :
                        w.enemies[i].alive /\ colliderect(r, SpriteRect(w.enemies[i]))
        collided_pots == SelectSeq(Alive(w.pots), LAMBDA pot : colliderect(r, SpriteRect(pot)))
        ws == Walls(w)
        hit_wall == \E k \in DOMAIN ws : colliderect(r, ws[k])
        hit_door == \E k \in DOMAIN w.doors :
                        w.doors[k].alive /\ colliderect(r, SpriteRect(w.doors[k]))
        killed == hit_enemy \/ collided_pots # << >> \/ hit_wall \/ hit_door
    IN Do([w EXCEPT
             !.projectiles[j] = [p EXCEPT !.alive = IF killed THEN FALSE ELSE @],
             !.enemies =
                 [i \in DOMAIN @ |->
                    IF @[i].alive /\ colliderect(r, SpriteRect(@[i]))
                    THEN EnemyTakeDamage(@[i], PLAYER_DAMAGE) ELSE @[i]]],
          LAMBDA w1 :
            DestroyPots(w1, [k \in DOMAIN collided_pots |-> collided_pots[k].id], draws))

\* Projectile.update: every check is made, also after an earlier one killed
\* the projectile
ProjectileUpdate(w, j, draws) ==
    LET p == [w.projectiles[j] EXCEPT !.x = @ + w.projectiles[j].vx,
                                      !.y = @ + w.projectiles[j].vy]
        r == ProjRect(p)
        offscreen == ~colliderect(
                        inflate(CameraGetRect(w), CAMERA_KILL_MARGIN, CAMERA_KILL_MARGIN), r)
        hit_enemy == \E i \in DOMAIN w.enemies :
                        w.enemies[i].alive /\ colliderect(r, SpriteRect(w.enemies[i]))
        collided_pots == SelectSeq(Alive(w.pots), LAMBDA pot : colliderect(r, SpriteRect(pot)))
        ws == Walls(w)
        hit_wall == \E k \in DOMAIN ws : colliderect(r, ws[k])
        hit_door == \E k \in DOMAIN w.doors :
                        w.doors[k].alive /\ colliderect(r, SpriteRect(w.doors[k]))
        killed == offscreen \/ hit_enemy \/ collided_pots # << >> \/ hit_wall \/ hit_door
    IN Do([w EXCEPT
             !.projectiles[j] = [p EXCEPT !.alive = IF killed THEN FALSE ELSE @],
             !.enemies =
                 [i \in DOMAIN @ |->
                    IF @[i].alive /\ colliderect(r, SpriteRect(@[i]))
                    THEN EnemyTakeDamage(@[i], PLAYER_DAMAGE) ELSE @[i]]],
          LAMBDA w1 :
            DestroyPots(w1, [k \in DOMAIN collided_pots |-> collided_pots[k].id], draws))

\* ------------------------------------------------------------------ trading
\* UI.process_merchant_selection with the two "coins >= cost" tests removed
process_merchant_selection_unchecked(w) ==
    IF w.ui.merchant_options = << >> THEN w
    ELSE
      LET selection == w.ui.merchant_options[w.ui.selected_merchant_option + 1]
      IN CASE selection = "Arrows (3 Coins)" ->
                add_message([w EXCEPT !.player.coins = @ - MERCHANT_ARROW_COST,
                                      !.player.arrows = @ + MERCHANT_ARROW_AMOUNT],
                            "Bought 5 arrows.")
           [] selection = "Potion (5 Coins)" ->
                add_message([w EXCEPT !.player.coins = @ - MERCHANT_POTION_COST,
                                      !.player.health_bottles = @ + MERCHANT_POTION_AMOUNT],
                            "Bought 1 health potion.")
           [] selection = "Exit" ->
                add_message(
                    clear_merchant_options([w EXCEPT !.player.dialogue_active = FALSE]),
                    "See you again soon!")
           [] OTHER -> w

\* UI.process_merchant_selection if the Exit offer left dialogue_active set
process_merchant_selection_stuck(w) ==
    IF w.ui.merchant_options = << >> THEN w
    ELSE
      LET selection == w.ui.merchant_options[w.ui.selected_merchant_option + 1]
      IN CASE selection = "Arrows (3 Coins)" ->
                IF w.player.coins >= MERCHANT_ARROW_COST
                THEN add_message([w EXCEPT !.player.coins = @ - MERCHANT_ARROW_COST,
                                           !.player.arrows = @ + MERCHANT_ARROW_AMOUNT],
                                 "Bought 5 arrows.")
                ELSE add_message(w, "Not enough coins for arrows!")
           [] selection = "Potion (5 Coins)" ->
                IF w.player.coins >= MERCHANT_POTION_COST
                THEN add_message([w EXCEPT !.player.coins = @ - MERCHANT_POTION_COST,
                                           !.player.health_bottles = @ + MERCHANT_POTION_AMOUNT],
                                 "Bought 1 health potion.")
                ELSE add_message(w, "Not enough coins for a potion!")
           [] selection = "Exit" ->
                add_message(clear_merchant_options(w), "See you again soon!")
           [] OTHER -> w

\* UI.process_merchant_selection
process_merchant_selection(w) ==
    IF w.ui.merchant_options = << >> THEN w
    ELSE
      LET selection == w.ui.merchant_options[w.ui.selected_merchant_option + 1]
      IN CASE selection = "Arrows (3 Coins)" ->
                IF w.player.coins >= MERCHANT_ARROW_COST
                THEN add_message([w EXCEPT !.player.coins = @ - MERCHANT_ARROW_COST,
                                           !.player.arrows = @ + MERCHANT_ARROW_AMOUNT],
                                 "Bought 5 arrows.")
                ELSE add_message(w, "Not enough coins for arrows!")
           [] selection = "Potion (5 Coins)" ->
                IF w.player.coins >= MERCHANT_POTION_COST
                THEN add_message([w EXCEPT !.player.coins = @ - MERCHANT_POTION_COST,
                                           !.player.health_bottles = @ + MERCHANT_POTION_AMOUNT],
                                 "Bought 1 health potion.")
                ELSE add_message(w, "Not enough coins for a potion!")
           [] selection = "Exit" ->
                add_message(
                    clear_merchant_options([w EXCEPT !.player.dialogue_active = FALSE]),
                    "See you again soon!")
           [] OTHER -> w

\* UI.handle_merchant_input without the "% len(self.merchant_options)" of
\* lines 541 and 543
handle_merchant_input_unwrapped(w, key) ==
    IF ~w.player.dialogue_active \/ w.ui.merchant_options = << >> THEN w
    ELSE CASE key = "UP" -> [w EXCEPT !.ui.selected_merchant_option = @ - 1]
           [] key = "DOWN" -> [w EXCEPT !.ui.selected_merchant_option = @ + 1]
           [] key = "RETURN" -> process_merchant_selection(w)
           [] OTHER -> w

\* UI.handle_merchant_input for a KEYDOWN event of the given key
handle_merchant_input(w, key) ==
    IF ~w.player.dialogue_active \/ w.ui.merchant_options = << >> THEN w
    ELSE CASE key = "UP" ->
                [w EXCEPT !.ui.selected_merchant_option =
                    (@ - 1) % Len(w.ui.merchant_options)]
           [] key = "DOWN" ->
                [w EXCEPT !.ui.selected_merchant_option =
                    (@ + 1) % Len(w.ui.merchant_options)]
           [] key = "RETURN" -> process_merchant_selection(w)
           [] OTHER -> w

\* --------------------------------------------------------------- controller
\* the K_ESCAPE branch of Game.events
EscapeKey(w) ==
    IF w.game.playing /\ ~w.game.game_over
    THEN IF ~w.game.paused
         THEN clear_merchant_options(
                 [w EXCEPT !.game.paused = TRUE,
                           !.ui.messages = << >>,
                           !.player.dialogue_active = FALSE])
         ELSE [w EXCEPT !.game.paused = FALSE]
    ELSE w

\* Game.events for an event queue holding one event (or none)
events(w, event) ==
    CASE event = "NONE" -> w
      [] event = "QUIT" -> [w EXCEPT !.game.playing = FALSE, !.game.running = FALSE]
      [] OTHER ->
            Do(IF event = "ESCAPE" THEN EscapeKey(w) ELSE w,
               LAMBDA w1 : IF w1.player.dialogue_active
                           THEN handle_merchant_input(w1, event) ELSE w1)

\* Camera.update(player) if the offset were clamped at the world origin
CameraUpdate_clamped(w) ==
    LET x == -(w.player.x + TILE_SIZE \div 2) + SCREEN_WIDTH \div 2
        y == -(w.player.y + TILE_SIZE \div 2) + SCREEN_HEIGHT \div 2
    IN [w EXCEPT !.camera = [x |-> IF x > 0 THEN 0 ELSE x, y |-> IF y > 0 THEN 0 ELSE y]]

\* Camera.update(player)
CameraUpdate(w) ==
    [w EXCEPT !.camera = [x |-> -(w.player.x + TILE_SIZE \div 2) + SCREEN_WIDTH \div 2,
                          y |-> -(w.player.y + TILE_SIZE \div 2) + SCREEN_HEIGHT \div 2]]

\* the effect of one collected item (Game.update's loop body)
ItemEffect(w, type) ==
    CASE type = "health_bottle" ->
            add_message([w EXCEPT !.player.health_bottles = @ + 1],
                        "Picked up a health bottle.")
      [] type = "coin" ->
            add_message([w EXCEPT !.player.coins = @ + 1], "Picked up a coin.")
      [] type = "arrows" ->
            add_message([w EXCEPT !.player.arrows = @ + ARROWS_PICKUP_AMOUNT],
                        "Picked up 5 arrows.")
      [] type = "key" ->
            add_message([w EXCEPT !.player.keys = @ + 1], "Picked up a mysterious key!")
      [] OTHER -> w

RECURSIVE ApplyItems(_, _)
ApplyItems(w, ids) ==
    IF ids = << >> THEN w
    ELSE Do([ItemEffect(w, w.items[Head(ids)].type)
                EXCEPT !.items[Head(ids)].applied = @ + 1],
            LAMBDA w1 : ApplyItems(w1, Tail(ids)))

\* the loop over item_hits with spritecollide(player, items, False)
CollectItems_keep(w) ==
    LET item_hits == SelectSeq(Alive(w.items),
                        LAMBDA it : colliderect(SpriteRect(w.player), ItemRect(it)))
    IN ApplyItems(w, [k \in DOMAIN item_hits |-> item_hits[k].id])

\* spritecollide(player, items, True) and the loop over item_hits
CollectItems(w) ==
    LET item_hits == SelectSeq(Alive(w.items),
                        LAMBDA it : colliderect(SpriteRect(w.player), ItemRect(it)))
        ids == [k \in DOMAIN item_hits |-> item_hits[k].id]
    IN Do([w EXCEPT !.items =
             [i \in DOMAIN @ |->
                IF \E k \in DOMAIN ids : ids[k] = i
                THEN [@[i] EXCEPT !.alive = FALSE] ELSE @[i]]],
          LAMBDA w1 : ApplyItems(w1, ids))

\* the death check with "health < 0" in place of "health <= 0"
DeathCheck_strict(w) ==
    IF w.player.health < 0 /\ ~w.game.game_over
    THEN add_message(
            [w EXCEPT !.game.game_over = TRUE, !.game.playing = FALSE,
                      !.hist.game_overs = @ + 1, !.hist.death_messages = @ + 1],
            "You have fallen!")
    ELSE w

\* the death check at the end of Game.update
DeathCheck(w) ==
    IF w.player.health <= 0 /\ ~w.game.game_over
    THEN add_message(
            [w EXCEPT !.game.game_over = TRUE, !.game.playing = FALSE,
                      !.hist.game_overs = @ + 1, !.hist.death_messages = @ + 1],
            "You have fallen!")
    ELSE w

\* Game.update after all_sprites.update()
UpdateRest(w) == Do(Do(CameraUpdate(w), CollectItems), DeathCheck)

\* the sprites of all_sprites that have an update of their own, in the order
\* Group.update visits them: the player, the enemies, then the projectiles
Snapshot(w) ==
    << [kind |-> "player", id |-> 0] >>
    \o [k \in DOMAIN Alive(w.enemies) |-> [kind |-> "enemy", id |-> Alive(w.enemies)[k].id]]
    \o [k \in DOMAIN Alive(w.projectiles) |->
            [kind |-> "projectile", id |-> Alive(w.projectiles)[k].id]]

\* the first lines of Game.show_pause_screen with lines 835 and 836 swapped
EnterPauseScreen_reversed(w) == [add_message(w, "Game Paused") EXCEPT !.ui.messages = << >>]

\* the first lines of Game.show_pause_screen
EnterPauseScreen(w) == add_message([w EXCEPT !.ui.messages = << >>], "Game Paused")

\* Game.run after Game.draw: which blocking screen is shown, if any
AfterDraw(w) ==
    IF w.game.paused THEN "pause_screen"
    ELSE IF w.game.game_over THEN "death_screen"
    ELSE "events"

EnterScreen(w) == IF w.game.paused THEN EnterPauseScreen(w) ELSE w

\* ------------------------------------------------------------- level editor
\* level_editor.py: the editor of level.json
DEFAULT_MAP_WIDTH == 30
DEFAULT_MAP_HEIGHT == 20
SCROLL_TILES == 5

Max(a, b) == IF a >= b THEN a ELSE b
Min(a, b) == IF a <= b THEN a ELSE b

\* load_level_data when level.json does not exist: an empty level
NewLevelData(width, height) ==
    [map_width |-> width, map_height |-> height, player_spawn |-> Tile(1, 1),
     walls |-> << >>, pots |-> << >>, enemies |-> << >>, merchants |-> << >>,
     doors |-> << >>, keys |-> << >>]

tools == << "wall", "pot", "enemy", "player", "merchant", "door", "key", "erase" >>
menu_items == tools

\* the position of a tool in self.tools, counted from 0
ToolIndex(tool) == CHOOSE i \in 0..(Len(tools) - 1) : tools[i + 1] = tool

\* an entry of the event queue of pygame.event.get()
EditorEvent(type, key, pos, button) ==
    [type |-> type, key |-> key, pos |-> pos, button |-> button]

\* the number of objects of the level
ObjectCount(data) ==
    Len(data.walls) + Len(data.pots) + Len(data.enemies) + Len(data.merchants)
        + Len(data.doors) + Len(data.keys)

\* LevelEditor.__init__; history: events counts the events handled since,
\* last_event is the last of them and removed the number of objects it took
\* from the level
LevelEditor(data) ==
    [running |-> TRUE, level_data |-> data,
     map_width_pixels |-> data.map_width * TILE_SIZE,
     map_height_pixels |-> data.map_height * TILE_SIZE,
     camera_x |-> 0, camera_y |-> 0,
     selected_tool |-> tools[1],
     menu_open |-> FALSE, menu_selection_index |-> 0,
     events |-> 0, last_event |-> EditorEvent("NONE", "", << 0, 0 >>, 0), removed |-> 0]

OnTile(o, x, y) == o.x = x /\ o.y = y
WallCovers(w, x, y) == w.x <= x /\ x < w.x + w.w /\ w.y <= y /\ y < w.y + w.h

\* LevelEditor.erase_at_position
erase_at_position(ed, x, y) ==
    Do([ed EXCEPT
        !.level_data.walls = SelectSeq(@, LAMBDA w : ~WallCovers(w, x, y)),
        !.level_data.pots = SelectSeq(@, LAMBDA o : ~OnTile(o, x, y)),
        !.level_data.enemies = SelectSeq(@, LAMBDA o : ~OnTile(o, x, y)),
        !.level_data.merchants = SelectSeq(@, LAMBDA o : ~OnTile(o, x, y)),
        !.level_data.doors = SelectSeq(@, LAMBDA o : ~OnTile(o, x, y)),
        !.level_data.keys = SelectSeq(@, LAMBDA o : ~OnTile(o, x, y))],
       LAMBDA e1 :
         [e1 EXCEPT !.removed = ObjectCount(ed.level_data) - ObjectCount(e1.level_data)])

\* the tool branches of LevelEditor.place_at_position
PlaceTool(ed, x, y) ==
    LET tool == ed.selected_tool
        free(seq) == \A k \in DOMAIN seq : ~OnTile(seq[k], x, y)
    IN CASE tool = "wall" ->
              IF \A k \in DOMAIN ed.level_data.walls :
                     ed.level_data.walls[k] # WallTile(x, y, 1, 1)
              THEN [ed EXCEPT !.level_data.walls = Append(@, WallTile(x, y, 1, 1))]
              ELSE ed
         [] tool = "pot" ->
              IF free(ed.level_data.pots)
              THEN [ed EXCEPT !.level_data.pots = Append(@, Tile(x, y))] ELSE ed
         [] tool = "enemy" ->
              IF free(ed.level_data.enemies)
              THEN [ed EXCEPT !.level_data.enemies =
                                 Append(@, [type |-> "melee", x |-> x, y |-> y])]
              ELSE ed
         [] tool = "player" -> [ed EXCEPT !.level_data.player_spawn = Tile(x, y)]
         [] tool = "merchant" ->
              IF free(ed.level_data.merchants)
              THEN [ed EXCEPT !.level_data.merchants = Append(@, Tile(x, y))] ELSE ed
         [] tool = "door" ->
              IF free(ed.level_data.doors)
              THEN [ed EXCEPT !.level_data.doors = Append(@, Tile(x, y))] ELSE ed
         [] tool = "key" ->
              IF free(ed.level_data.keys)
              THEN [ed EXCEPT !.level_data.keys = Append(@, Tile(x, y))] ELSE ed
         [] tool = "erase" -> erase_at_position(ed, x, y)
         [] OTHER -> ed

\* LevelEditor.place_at_position without the erase_at_position of line 157
place_at_position_stacking(ed, x, y) ==
    IF ~(0 <= x /\ x < ed.level_data.map_width /\ 0 <= y /\ y < ed.level_data.map_height)
    THEN ed
    ELSE PlaceTool(ed, x, y)

\* LevelEditor.place_at_position
place_at_position(ed, x, y) ==
    IF ~(0 <= x /\ x < ed.level_data.map_width /\ 0 <= y /\ y < ed.level_data.map_height)
    THEN ed
    ELSE Do(IF ed.selected_tool # "erase" THEN erase_at_position(ed, x, y) ELSE ed,
            LAMBDA e1 : PlaceTool(e1, x, y))

\* LevelEditor.handle_input, menu closed: the arrow keys scroll the camera,
\* then the camera is clamped (lines 130-133)
ScrollCamera(ed, key) ==
    LET x0 == ed.camera_x + (IF key = "LEFT" THEN TILE_SIZE * SCROLL_TILES ELSE 0)
                          - (IF key = "RIGHT" THEN TILE_SIZE * SCROLL_TILES ELSE 0)
        y0 == ed.camera_y + (IF key = "UP" THEN TILE_SIZE * SCROLL_TILES ELSE 0)
                          - (IF key = "DOWN" THEN TILE_SIZE * SCROLL_TILES ELSE 0)
        x1 == Max(Min(0, x0), -(ed.map_width_pixels - SCREEN_WIDTH))
        y1 == Max(Min(0, ed.map_height_pixels - SCREEN_HEIGHT), y0)
        x2 == Max(Min(0, x1), -(ed.map_width_pixels - SCREEN_WIDTH))
        y2 == Max(Min(0, y1), -(ed.map_height_pixels - SCREEN_HEIGHT))
    IN [ed EXCEPT !.camera_x = x2, !.camera_y = y2]

\* LevelEditor.handle_input, menu open: the cursor keys and RETURN
MenuKey(ed, key) ==
    CASE key = "UP" ->
            [ed EXCEPT !.menu_selection_index = (@ - 1) % Len(menu_items)]
      [] key = "DOWN" ->
            [ed EXCEPT !.menu_selection_index = (@ + 1) % Len(menu_items)]
      [] key = "RETURN" ->
            [ed EXCEPT !.selected_tool = menu_items[ed.menu_selection_index + 1],
                       !.menu_open = FALSE]
      [] OTHER -> ed

\* LevelEditor.handle_input for a KEYDOWN event; K_s writes level.json and
\* changes nothing in the editor
EditorKeyDown(ed, key) ==
    Do(IF key = "ESCAPE" THEN [ed EXCEPT !.running = FALSE] ELSE ed, LAMBDA e1 :
    Do(IF key = "e"
       THEN [e1 EXCEPT !.menu_open = ~@,
                       !.menu_selection_index = ToolIndex(e1.selected_tool)]
       ELSE e1, LAMBDA e2 :
    IF e2.menu_open THEN MenuKey(e2, key) ELSE ScrollCamera(e2, key)))

\* LevelEditor.handle_input for a MOUSEBUTTONDOWN event at pixel pos
EditorMouseDown(ed, pos, button) ==
    IF ed.menu_open THEN ed
    ELSE LET world_x == (pos[1] - ed.camera_x) \div TILE_SIZE
             world_y == (pos[2] - ed.camera_y) \div TILE_SIZE
         IN CASE button = 1 -> place_at_position(ed, world_x, world_y)
              [] button = 3 -> erase_at_position(ed, world_x, world_y)
              [] OTHER -> ed

\* ------------------------------------------------------------------ actions
\* the loot draws of one handler: one outcome of random.choices per live pot
LootDraws == [{ i \in DOMAIN pots : pots[i].alive } -> Range(LootOptions)]

Init ==
    /\ pc = "start_screen"
    /\ stack = << >>
    /\ level_file \in Levels
    /\ input = NoInput
    /\ now = StartMs
    /\ game = [running |-> TRUE, playing |-> FALSE, paused |-> FALSE, game_over |-> FALSE]
    /\ player = NewPlayer(0, 0)   \* no Player exists before Game.new
    /\ ui = [messages |-> << >>, merchant_options |-> << >>, selected_merchant_option |-> 0]
    /\ enemies = << >>
    /\ pots = << >>
    /\ doors = << >>
    /\ merchants = << >>
    /\ items = << >>
    /\ projectiles = << >>
    /\ camera = [x |-> 0, y |-> 0]
    /\ todo = << >>
    /\ editor = LevelEditor(NewLevelData(DEFAULT_MAP_WIDTH, DEFAULT_MAP_HEIGHT))
    /\ hist = NoHist

\* Game.show_start_screen: the start button is clicked and Game.new runs
StartGame ==
    /\ pc = "start_screen"
    /\ \E w1 \in { new(World, level_file) } : Install(w1)
    /\ pc' = "events"
    /\ UNCHANGED << stack, level_file, editor, input, todo >>

\* Game.show_start_screen: the window is closed
StartQuit ==
    /\ pc = "start_screen"
    /\ game' = [game EXCEPT !.running = FALSE]
    /\ pc' = "done"
    /\ UNCHANGED << stack, level_file, editor, input, now, player, ui, enemies, pots, doors,
                    merchants, items, projectiles, camera, todo, hist >>

\* the test of Game.run that guards Game.update, if an open dialogue did not
\* count
Updating_in_dialogue(w) == ~w.game.paused /\ ~w.game.game_over

\* the test of Game.run that guards Game.update
Updating(w) == ~w.game.paused /\ ~w.game.game_over /\ ~w.player.dialogue_active

\* Game.run: clock.tick, Game.events and the test that guards Game.update
TickEvents ==
    /\ pc = "events"
    /\ game.playing
    /\ hist.ticks < MaxTicks
    /\ \E inp \in TickInputs :
       \E w1 \in { events([World EXCEPT !.now = @ + inp.dt, !.hist.ticks = @ + 1],
                            inp.event) } :
            IF Updating(w1)
            THEN /\ Install([w1 EXCEPT !.hist.updates = @ + 1])
                 /\ pc' = "sprites"
                 /\ todo' = Snapshot(w1)
                 /\ input' = inp
            ELSE /\ Install(EnterScreen(w1))
                 /\ pc' = AfterDraw(w1)
                 /\ todo' = << >>
                 /\ input' = inp
    /\ UNCHANGED << stack, level_file, editor >>

\* after a sprite's update: the next sprite, or the rest of Game.update
NextSprite ==
    /\ todo' = Tail(todo)
    /\ pc' = IF Tail(todo) = << >> THEN "update_rest" ELSE "sprites"
    /\ UNCHANGED << stack, level_file, editor, input >>

\* all_sprites.update(): Player.update
UpdatePlayer ==
    /\ pc = "sprites"
    /\ todo # << >>
    /\ Head(todo).kind = "player"
    /\ \E draws \in LootDraws :
         \E w1 \in { PlayerUpdate(World, input.pressed, draws) } : Install(w1)
    /\ NextSprite

\* all_sprites.update(): Enemy.update of the next enemy of the snapshot
UpdateEnemy ==
    /\ pc = "sprites"
    /\ todo # << >>
    /\ Head(todo).kind = "enemy"
    /\ \E w1 \in { EnemyUpdate(World, Head(todo).id) } : Install(w1)
    /\ NextSprite

\* all_sprites.update(): Projectile.update of the next projectile of the snapshot
UpdateProjectile ==
    /\ pc = "sprites"
    /\ todo # << >>
    /\ Head(todo).kind = "projectile"
    /\ \E draws \in LootDraws :
         \E w1 \in { ProjectileUpdate(World, Head(todo).id, draws) } : Install(w1)
    /\ NextSprite

\* the rest of Game.update, Game.draw, and the entry of a blocking screen
FinishUpdate ==
    /\ pc = "update_rest"
    /\ \E w1 \in { UpdateRest(World) } :
          /\ Install(EnterScreen(w1))
          /\ pc' = AfterDraw(w1)
    /\ input' = NoInput
    /\ UNCHANGED << stack, level_file, editor, todo >>

\* Game.show_pause_screen: Escape or the Resume button ends the screen
PauseResume ==
    /\ pc = "pause_screen"
    /\ game' = [game EXCEPT !.paused = FALSE]
    /\ pc' = "events"
    /\ UNCHANGED << stack, level_file, editor, input, now, player, ui, enemies, pots, doors,
                    merchants, items, projectiles, camera, todo, hist >>

\* Game.show_pause_screen: a QUIT event or the Exit button
PauseExit ==
    /\ pc = "pause_screen"
    /\ game' = [game EXCEPT !.paused = FALSE, !.running = FALSE, !.playing = FALSE]
    /\ pc' = "events"
    /\ UNCHANGED << stack, level_file, editor, input, now, player, ui, enemies, pots, doors,
                    merchants, items, projectiles, camera, todo, hist >>

\* Game.show_death_screen, the event loop of one iteration: a click on Respawn
\* calls Game.new, whose Game.run returns here later
DeathRespawnClick ==
    /\ pc = "death_screen"
    /\ hist.sessions < MaxSessions
    /\ \E w1 \in { new(World, level_file) } : Install(w1)
    /\ stack' = << "after_event_new" >> \o stack
    /\ pc' = "events"
    /\ UNCHANGED << level_file, editor, input, todo >>

\* Game.show_death_screen: a QUIT event or a click on Exit Game, after which
\* the buttons are still drawn, or the Exit Game button reported held down
DeathExit ==
    /\ pc \in { "death_screen", "death_buttons", "death_buttons_leaving" }
    /\ game' = [game EXCEPT !.running = FALSE]
    /\ pc' = IF pc = "death_screen" THEN "death_buttons_leaving" ELSE "death_leaving"
    /\ UNCHANGED << stack, level_file, editor, input, now, player, ui, enemies, pots, doors,
                    merchants, items, projectiles, camera, todo, hist >>

\* Game.show_death_screen: no event; the buttons are drawn next
DeathNoEvent ==
    /\ pc = "death_screen"
    /\ pc' = "death_buttons"
    /\ UNCHANGED << stack, level_file, editor, input, now, game, player, ui, enemies, pots,
                    doors, merchants, items, projectiles, camera, todo, hist >>

\* Game.show_death_screen: draw_button("Respawn") reports the button held down,
\* also when the screen is already being left
DeathRespawnButton ==
    /\ pc \in { "death_buttons", "death_buttons_leaving" }
    /\ hist.sessions < MaxSessions
    /\ \E w1 \in { new(World, level_file) } : Install(w1)
    /\ stack' = << "after_button_new" >> \o stack
    /\ pc' = "events"
    /\ UNCHANGED << level_file, editor, input, todo >>

\* Game.show_death_screen: no button is held; the loop repeats or ends
DeathNoButton ==
    /\ pc \in { "death_buttons", "death_buttons_leaving" }
    /\ pc' = IF pc = "death_buttons" THEN "death_screen" ELSE "death_leaving"
    /\ UNCHANGED << stack, level_file, editor, input, now, game, player, ui, enemies, pots,
                    doors, merchants, items, projectiles, camera, todo, hist >>

\* Game.show_death_screen returns to Game.run, whose loop test follows
DeathLeave ==
    /\ pc = "death_leaving"
    /\ pc' = "events"
    /\ UNCHANGED << stack, level_file, editor, input, now, game, player, ui, enemies, pots,
                    doors, merchants, items, projectiles, camera, todo, hist >>

\* Game.run ends (playing is false) and Game.new returns to its caller: the
\* start screen, or the death screen whose Respawn called it
RunReturns ==
    /\ pc = "events"
    /\ ~game.playing
    /\ IF stack = << >>
       THEN /\ pc' = "done"
            /\ stack' = stack
       ELSE /\ pc' = IF Head(stack) = "after_event_new"
                     THEN "death_buttons_leaving" ELSE "death_leaving"
            /\ stack' = Tail(stack)
    /\ UNCHANGED << level_file, editor, input, now, game, player, ui, enemies, pots, doors,
                    merchants, items, projectiles, camera, todo, hist >>

Next ==
    \/ StartGame
    \/ StartQuit
    \/ TickEvents
    \/ UpdatePlayer
    \/ UpdateEnemy
    \/ UpdateProjectile
    \/ FinishUpdate
    \/ PauseResume
    \/ PauseExit
    \/ DeathRespawnClick
    \/ DeathExit
    \/ DeathNoEvent
    \/ DeathRespawnButton
    \/ DeathNoButton
    \/ DeathLeave
    \/ RunReturns

Spec == Init /\ [][Next]_vars

\* ------------------------------------------------------- a trading session
\* A session of a level with MarketPots containers on the spawn tile and a
\* merchant beside it, taken up where the player has shot the containers,
\* collected what they dropped and opened the merchant's dialogue.
LevelMarket ==
    [EmptyLevel EXCEPT
        !.pots = [k \in 1..MarketPots |-> Tile(1, 1)],
        !.merchants = << Tile(2, 1) >>]

\* the Game object after Game.__init__
StartWorld(level) ==
    [now |-> StartMs,
     game |-> [running |-> TRUE, playing |-> FALSE, paused |-> FALSE, game_over |-> FALSE],
     player |-> NewPlayer(0, 0),
     ui |-> [messages |-> << >>, merchant_options |-> << >>, selected_merchant_option |-> 0],
     enemies |-> << >>, pots |-> << >>, doors |-> << >>, merchants |-> << >>,
     items |-> << >>, projectiles |-> << >>, camera |-> [x |-> 0, y |-> 0],
     level_data |-> level, hist |-> NoHist]

\* one Playing tick of Game.run in a level without hostiles: the keys in
\* pressed are held, at most one projectile is in flight
MarketTick(w, pressed, dt, draws) ==
    Do(PlayerUpdate([w EXCEPT !.now = @ + dt, !.hist.updates = @ + 1],
                    pressed, draws),
       LAMBDA w1 :
         Do(IF Alive(w.projectiles) # << >>
            THEN ProjectileUpdate(w1, Alive(w.projectiles)[1].id, draws) ELSE w1,
            UpdateRest))

\* equip the bow, shoot, let the arrow hit the containers, and after a long
\* frame press E
MarketSession(draws) ==
    Do(new(StartWorld(LevelMarket), LevelMarket), LAMBDA w0 :
    Do(MarketTick(w0, { "2" }, FrameMs, draws), LAMBDA w1 :
    Do(MarketTick(w1, { "SPACE" }, FrameMs, draws), LAMBDA w2 :
    Do(MarketTick(w2, { }, FrameMs, draws), LAMBDA w3 :
    MarketTick(w3, { "e" }, LongFrameMs, draws)))))

InitTrade ==
    /\ pc = "events"
    /\ stack = << >>
    /\ level_file = LevelMarket
    /\ input = NoInput
    /\ todo = << >>
    /\ editor = LevelEditor(NewLevelData(DEFAULT_MAP_WIDTH, DEFAULT_MAP_HEIGHT))
    /\ \E draws \in [1..MarketPots -> Range(LootOptions)] :
         \E w \in { MarketSession(draws) } :
            /\ now = w.now
            /\ game = w.game
            /\ player = w.player
            /\ ui = w.ui
            /\ enemies = w.enemies
            /\ pots = w.pots
            /\ doors = w.doors
            /\ merchants = w.merchants
            /\ items = w.items
            /\ projectiles = w.projectiles
            /\ camera = w.camera
            /\ hist = w.hist

\* the level has no hostiles and the player cannot die
NextTrade ==
    \/ TickEvents
    \/ UpdatePlayer
    \/ UpdateProjectile
    \/ FinishUpdate
    \/ PauseResume
    \/ PauseExit
    \/ RunReturns

SpecTrade == InitTrade /\ [][NextTrade]_vars

\* ------------------------------------------------------------------ a duel
\* A session of a level with one hostile on the tile below the spawn tile and
\* one two tiles to the right, taken up after the player has landed up to
\* MaxDuelHits sword hits on the first, one per long frame, has then either
\* kept the sword or equipped the bow and shot up to all of the arrows, one
\* per long frame, and has let a long frame pass.
LevelDuel ==
    [EmptyLevel EXCEPT !.enemies = << Tile(1, 2), Tile(3, 1) >>]

\* all_sprites.update() over the sprites of a snapshot
RECURSIVE UpdateSprites(_, _, _, _)
UpdateSprites(w, snapshot, pressed, draws) ==
    IF snapshot = << >> THEN w
    ELSE Do(CASE Head(snapshot).kind = "player" -> PlayerUpdate(w, pressed, draws)
              [] Head(snapshot).kind = "enemy" -> EnemyUpdate(w, Head(snapshot).id)
              [] OTHER -> ProjectileUpdate(w, Head(snapshot).id, draws),
            LAMBDA w1 : UpdateSprites(w1, Tail(snapshot), pressed, draws))

\* one Playing tick of Game.run with the keys of pressed held
PlayingTick(w, pressed, dt, draws) ==
    Do([w EXCEPT !.now = @ + dt, !.hist.updates = @ + 1], LAMBDA w0 :
    Do(UpdateSprites(w0, Snapshot(w0), pressed, draws), UpdateRest))

\* n Playing ticks, a long frame each, with SPACE held (an attack with the
\* equipped item in each)
RECURSIVE SwordHits(_, _)
SwordHits(w, n) ==
    IF n = 0 THEN w
    ELSE Do(PlayingTick(w, { "SPACE" }, LongFrameMs, << >>),
            LAMBDA w1 : SwordHits(w1, n - 1))

\* the bow is equipped and shots Playing ticks, a long frame each, pass with
\* SPACE held
BowShots(w, shots) ==
    Do(PlayingTick(w, { "2" }, LongFrameMs, << >>), LAMBDA w1 : SwordHits(w1, shots))

DuelSession(n, bow, shots) ==
    Do(new(StartWorld(LevelDuel), LevelDuel), LAMBDA w0 :
    Do(SwordHits(w0, n), LAMBDA w1 :
    Do(IF bow THEN BowShots(w1, shots) ELSE w1, LAMBDA w2 :
    PlayingTick(w2, { }, LongFrameMs, << >>))))

InitDuel ==
    /\ pc = "events"
    /\ stack = << >>
    /\ level_file = LevelDuel
    /\ input = NoInput
    /\ todo = << >>
    /\ editor = LevelEditor(NewLevelData(DEFAULT_MAP_WIDTH, DEFAULT_MAP_HEIGHT))
    /\ \E n \in 0..MaxDuelHits, bow \in BOOLEAN :
       \E shots \in IF bow THEN 0..INITIAL_ARROWS ELSE { 0 } :
         \E w \in { DuelSession(n, bow, shots) } :
            /\ now = w.now
            /\ game = w.game
            /\ player = w.player
            /\ ui = w.ui
            /\ enemies = w.enemies
            /\ pots = w.pots
            /\ doors = w.doors
            /\ merchants = w.merchants
            /\ items = w.items
            /\ projectiles = w.projectiles
            /\ camera = w.camera
            /\ hist = w.hist

\* the hostiles do not reach the player within the ticks explored
NextDuel ==
    \/ TickEvents
    \/ UpdatePlayer
    \/ UpdateEnemy
    \/ UpdateProjectile
    \/ FinishUpdate
    \/ PauseResume
    \/ PauseExit
    \/ RunReturns

SpecDuel == InitDuel /\ [][NextDuel]_vars

\* ----------------------------------------------------------------- a shop
\* The trading session taken up one tick earlier, before E is pressed: the
\* player stands beside the merchant with the loot of the containers (coins
\* from the first c of them, arrows from the others) and no dialogue has been
\* opened yet.
ShopSession(draws) ==
    Do(new(StartWorld(LevelMarket), LevelMarket), LAMBDA w0 :
    Do(MarketTick(w0, { "2" }, FrameMs, draws), LAMBDA w1 :
    Do(MarketTick(w1, { "SPACE" }, FrameMs, draws), LAMBDA w2 :
    MarketTick(w2, { }, FrameMs, draws))))

InitShop ==
    /\ pc = "events"
    /\ stack = << >>
    /\ level_file = LevelMarket
    /\ input = NoInput
    /\ todo = << >>
    /\ editor = LevelEditor(NewLevelData(DEFAULT_MAP_WIDTH, DEFAULT_MAP_HEIGHT))
    /\ \E c \in 0..MarketPots :
         \E w \in { ShopSession([k \in 1..MarketPots |->
                                    IF k <= c THEN "coin" ELSE "arrows"]) } :
            /\ now = w.now
            /\ game = w.game
            /\ player = w.player
            /\ ui = w.ui
            /\ enemies = w.enemies
            /\ pots = w.pots
            /\ doors = w.doors
            /\ merchants = w.merchants
            /\ items = w.items
            /\ projectiles = w.projectiles
            /\ camera = w.camera
            /\ hist = w.hist

SpecShop == InitShop /\ [][NextTrade]_vars

\* ----------------------------------------------------------------- a volley
\* A session of a level with a hostile eight tiles below the spawn tile, a
\* door eight tiles to its right and a wall or a container eight tiles to its
\* left (in one level the hostile stands on the container), taken up after the player has taken one step in some direction,
\* equipped the bow and shot an arrow, which has flown for up to MaxFlight
\* ticks since.
LevelRangeWall ==
    [EmptyLevel EXCEPT
        !.player_spawn = Tile(9, 9),
        !.enemies = << Tile(9, 17) >>,
        !.doors = << Tile(17, 9) >>,
        !.walls = << WallTile(1, 9, 1, 1) >>]

LevelRangePot ==
    [EmptyLevel EXCEPT
        !.player_spawn = Tile(9, 9),
        !.enemies = << Tile(9, 17) >>,
        !.doors = << Tile(17, 9) >>,
        !.pots = << Tile(1, 9) >>]

\* the hostile stands on the container's tile instead
LevelRangeGuard ==
    [LevelRangePot EXCEPT !.enemies = << Tile(1, 9) >>]

RangeLevels == { LevelRangeWall, LevelRangePot, LevelRangeGuard }

\* n Playing ticks with no key held
RECURSIVE IdleTicks(_, _, _)
IdleTicks(w, n, draws) ==
    IF n = 0 THEN w
    ELSE IF n = 1 THEN PlayingTick(w, { }, FrameMs, draws)
    ELSE Do(IdleTicks(w, n \div 2, draws),
            LAMBDA w1 : IdleTicks(w1, n - n \div 2, draws))

VolleySession(level, key, flight, draws) ==
    Do(new(StartWorld(level), level), LAMBDA w0 :
    Do(PlayingTick(w0, { key }, FrameMs, draws), LAMBDA w1 :
    Do(PlayingTick(w1, { "2" }, FrameMs, draws), LAMBDA w2 :
    Do(PlayingTick(w2, { "SPACE" }, FrameMs, draws), LAMBDA w3 :
    IdleTicks(w3, flight, draws)))))

InitVolley ==
    /\ pc = "events"
    /\ stack = << >>
    /\ level_file \in RangeLevels
    /\ input = NoInput
    /\ todo = << >>
    /\ editor = LevelEditor(NewLevelData(DEFAULT_MAP_WIDTH, DEFAULT_MAP_HEIGHT))
    /\ \E key \in { "LEFT", "RIGHT", "UP", "DOWN" } :
       \E flight \in (MaxFlight - FlightWindow)..MaxFlight :
       \E draws \in [DOMAIN level_file.pots -> Range(LootOptions)] :
         \E w \in { VolleySession(level_file, key, flight, draws) } :
            /\ now = w.now
            /\ game = w.game
            /\ player = w.player
            /\ ui = w.ui
            /\ enemies = w.enemies
            /\ pots = w.pots
            /\ doors = w.doors
            /\ merchants = w.merchants
            /\ items = w.items
            /\ projectiles = w.projectiles
            /\ camera = w.camera
            /\ hist = w.hist

\* the hostile is out of reach and the player cannot die
NextVolley ==
    \/ TickEvents
    \/ UpdatePlayer
    \/ UpdateEnemy
    \/ UpdateProjectile
    \/ FinishUpdate
    \/ PauseResume
    \/ PauseExit
    \/ RunReturns

SpecVolley == InitVolley /\ [][NextVolley]_vars

\* ------------------------------------------------------------------ a chase
\* A session of the level without objects, taken up after the player has
\* taken one step in some direction, equipped the bow and shot an arrow. In
\* each tick that follows the player stands, walks after the arrow or walks
\* away from it; the game loop keeps ticking (while self.running), and the
\* session is followed while the arrow is in flight, for up to MaxChase
\* updates.
ChaseSession(key) ==
    Do(new(StartWorld(EmptyLevel), EmptyLevel), LAMBDA w0 :
    Do(PlayingTick(w0, { key }, FrameMs, << >>), LAMBDA w1 :
    Do(PlayingTick(w1, { "2" }, FrameMs, << >>), LAMBDA w2 :
    PlayingTick(w2, { "SPACE" }, FrameMs, << >>))))

InitChase ==
    /\ pc = "events"
    /\ stack = << >>
    /\ level_file = EmptyLevel
    /\ input = NoInput
    /\ todo = << >>
    /\ editor = LevelEditor(NewLevelData(DEFAULT_MAP_WIDTH, DEFAULT_MAP_HEIGHT))
    /\ \E key \in { "LEFT", "RIGHT", "UP", "DOWN" } :
         \E w \in { ChaseSession(key) } :
            /\ now = w.now
            /\ game = w.game
            /\ player = w.player
            /\ ui = w.ui
            /\ enemies = w.enemies
            /\ pots = w.pots
            /\ doors = w.doors
            /\ merchants = w.merchants
            /\ items = w.items
            /\ projectiles = w.projectiles
            /\ camera = w.camera
            /\ hist = w.hist

\* the movement keys on the axis the first arrow flies along
ChaseKeys ==
    IF projectiles[1].vx # 0 THEN { "LEFT", "RIGHT" } ELSE { "UP", "DOWN" }

\* one iteration of Game.run in the Playing phase: no event, at most one
\* movement key held
ChaseTick ==
    /\ pc = "events"
    /\ game.running /\ game.playing
    /\ hist.updates < MaxChase
    /\ \E j \in DOMAIN projectiles : projectiles[j].alive
    /\ \E pressed \in { { } } \cup { { k } : k \in ChaseKeys } :
         \E w1 \in { PlayingTick(World, pressed, FrameMs, << >>) } : Install(w1)
    /\ UNCHANGED << pc, stack, level_file, editor, input, todo >>

NextChase == ChaseTick

SpecChase == InitChase /\ [][NextChase]_vars /\ WF_vars(ChaseTick)

\* ------------------------------------------------------------ editor session
\* The editor run on an empty level: the default map, or a map of SmallMap
\* tiles a side, smaller than the window. Up to MaxEditorEvents events are handled.
EditorLevels ==
    { NewLevelData(DEFAULT_MAP_WIDTH, DEFAULT_MAP_HEIGHT), NewLevelData(SmallMap, SmallMap) }

\* where the mouse is when a button goes down: the top left tile of the
\* window and a tile near its bottom right corner
MousePoints == { << 10, 10 >>, << 1000, 700 >> }

EditorKeys == { "LEFT", "RIGHT", "UP", "DOWN", "e", "RETURN", "s", "ESCAPE" }

InitEditor ==
    /\ pc = "start_screen"
    /\ stack = << >>
    /\ level_file = EmptyLevel
    /\ input = NoInput
    /\ now = StartMs
    /\ game = [running |-> TRUE, playing |-> FALSE, paused |-> FALSE, game_over |-> FALSE]
    /\ player = NewPlayer(0, 0)
    /\ ui = [messages |-> << >>, merchant_options |-> << >>, selected_merchant_option |-> 0]
    /\ enemies = << >>
    /\ pots = << >>
    /\ doors = << >>
    /\ merchants = << >>
    /\ items = << >>
    /\ projectiles = << >>
    /\ camera = [x |-> 0, y |-> 0]
    /\ todo = << >>
    /\ hist = NoHist
    /\ editor \in { LevelEditor(data) : data \in EditorLevels }

\* the game is not running while the editor is
GameIdle ==
    UNCHANGED << pc, stack, level_file, input, now, game, player, ui, enemies, pots,
                 doors, merchants, items, projectiles, camera, todo, hist >>

\* LevelEditor.run: handle_input takes a KEYDOWN event from the queue
EditorKey ==
    /\ editor.running
    /\ editor.events < MaxEditorEvents
    /\ \E key \in EditorKeys :
         \E e1 \in { EditorKeyDown([editor EXCEPT !.removed = 0], key) } :
            editor' = [e1 EXCEPT !.events = @ + 1,
                                 !.last_event = EditorEvent("KEYDOWN", key, << 0, 0 >>, 0)]
    /\ GameIdle

\* LevelEditor.run: handle_input takes a MOUSEBUTTONDOWN event from the queue
EditorMouse ==
    /\ editor.running
    /\ editor.events < MaxEditorEvents
    /\ \E pos \in MousePoints, button \in { 1, 3 } :
         \E e1 \in { EditorMouseDown([editor EXCEPT !.removed = 0], pos, button) } :
            editor' = [e1 EXCEPT !.events = @ + 1,
                                 !.last_event = EditorEvent("MOUSEBUTTONDOWN", "", pos, button)]
    /\ GameIdle

\* LevelEditor.run: handle_input takes a QUIT event from the queue
EditorQuit ==
    /\ editor.running
    /\ editor' = [editor EXCEPT !.running = FALSE,
                                 !.last_event = EditorEvent("QUIT", "", << 0, 0 >>, 0)]
    /\ GameIdle

NextEditor == EditorKey \/ EditorMouse \/ EditorQuit

SpecEditor == InitEditor /\ [][NextEditor]_vars

\* =================================================================== claims
Flag(b) == IF b THEN 1 ELSE 0

\* C1: at every point of every run at most one of game_over, paused and the
\* player's dialogue_active is set (the session phase is unambiguous); in
\* particular dialogue_active and game_over are never both set.
C1_PhaseExclusive ==
    Flag(game.game_over) + Flag(game.paused) + Flag(player.dialogue_active) <= 1

\* a tick is over: control is not inside Game.update
BetweenTicks == pc \notin { "start_screen", "sprites", "update_rest" }

\* Player.update has run in the tick in progress
PlayerUpdated ==
    \/ pc = "update_rest"
    \/ pc = "sprites" /\ Head(todo).kind # "player"

\* C2: after any sequence of Player.take_damage and Player.use_health_bottle
\* calls the player's health lies in [0, PLAYER_HEALTH]: damage clamps it at 0
\* and healing clamps it at the maximum.
C2_HealthInRange == player.health >= 0 /\ player.health <= PLAYER_HEALTH

\* a health bottle has been used on a wounded player and the heal was cut at
\* the maximum (the only bottle is gone and health is full again)
C2_HealClamped ==
    /\ hist.updates >= 2
    /\ PlayerUpdated
    /\ input.pressed = { "h" }
    /\ player.health_bottles = 0
    /\ player.health = PLAYER_HEALTH

\* C3: within one session the transition to GameOver fires exactly once, in
\* the tick in which the player's health first reaches 0: game_over is set
\* once and the death notification is posted once (the counters of the
\* session never exceed 1 and game_over is set exactly when one transition
\* has fired), at the end of every tick game_over is set exactly when health
\* is 0, and once health is 0 the later sprites of the same tick leave it 0.
C3_GameOverState ==
    /\ hist.game_overs <= 1
    /\ hist.death_messages = hist.game_overs
    /\ (game.game_over <=> (hist.game_overs = 1))
    /\ (BetweenTicks => (game.game_over <=> (player.health = 0)))

C3_GameOverStep ==
    (pc = "sprites" /\ player.health = 0) =>
        (player'.health = 0 /\ hist'.game_overs = hist.game_overs /\ ~game'.game_over)

C3_GameOverOnce == []C3_GameOverState /\ [][C3_GameOverStep]_vars

\* health has reached 0 in a tick in which two more hostiles are still to act
C3_DeadMidTick ==
    /\ pc = "sprites"
    /\ player.health = 0
    /\ Len(todo) >= 2
    /\ \A k \in DOMAIN todo : todo[k].kind = "enemy" /\ enemies[todo[k].id].alive

\* the walls, live containers and live doors, as rects
ObstacleRects ==
    Range(Walls(World))
    \cup { SpriteRect(pots[i]) : i \in { k \in DOMAIN pots : pots[k].alive } }
    \cup { SpriteRect(doors[i]) : i \in { k \in DOMAIN doors : doors[k].alive } }

\* C4: for every layout of walls, containers and doors and every player
\* position, once Player.move has resolved the x move and then the y move the
\* player's hit rect intersects no wall, container or door, also when one
\* axis move overlaps several obstacles at once.
C4_PlayerClearAfterMove ==
    (PlayerUpdated /\ input.pressed \cap { "LEFT", "RIGHT", "UP", "DOWN" } # {}) =>
        \A o \in ObstacleRects : ~colliderect(HitRect(player), o)

\* no hostile of the level file shares its tile with another hostile, a
\* container or a door, or stands on a tile of a wall
PlacedClear ==
    LET es == level_file.enemies
    IN \A i \in DOMAIN es :
         /\ \A j \in DOMAIN es : j # i => es[j] # es[i]
         /\ es[i] \notin Range(level_file.pots) \cup Range(level_file.doors)
         /\ \A k \in DOMAIN level_file.walls :
               LET wl == level_file.walls[k]
               IN ~(/\ wl.x <= es[i].x /\ es[i].x < wl.x + wl.w
                    /\ wl.y <= es[i].y /\ es[i].y < wl.y + wl.h)

\* C5: starting from a placement in which no hostile overlaps a wall, a
\* container, a door or another hostile, after every tick no live hostile's
\* rect overlaps a wall, a container, a door or another live hostile.
C5_HostilesClearAfterTick ==
    (PlacedClear /\ hist.updates >= 1 /\ BetweenTicks) =>
        \A i \in DOMAIN enemies :
            enemies[i].alive =>
                /\ \A o \in ObstacleRects : ~colliderect(SpriteRect(enemies[i]), o)
                /\ \A j \in DOMAIN enemies :
                      (j # i /\ enemies[j].alive) =>
                          ~colliderect(SpriteRect(enemies[i]), SpriteRect(enemies[j]))

\* the newest notification
LastMessage(u) == IF u.messages = << >> THEN "" ELSE u.messages[Len(u.messages)]

\* the step of Game.run that handles a KEYDOWN of key k while a dialogue is open
DialogueKey(k) ==
    /\ pc = "events"
    /\ game.playing
    /\ player.dialogue_active
    /\ ui.merchant_options # << >>
    /\ hist'.ticks = hist.ticks + 1
    /\ input'.event = k

C6_TradeStep ==
    DialogueKey("RETURN") =>
        LET offer == ui.merchant_options[ui.selected_merchant_option + 1]
        IN /\ offer = "Arrows (3 Coins)" =>
                IF player.coins >= 3
                THEN player' = [player EXCEPT !.coins = @ - 3, !.arrows = @ + 5]
                ELSE /\ player' = player
                     /\ LastMessage(ui') = "Not enough coins for arrows!"
           /\ offer = "Potion (5 Coins)" =>
                IF player.coins >= 5
                THEN player' = [player EXCEPT !.coins = @ - 5, !.health_bottles = @ + 1]
                ELSE /\ player' = player
                     /\ LastMessage(ui') = "Not enough coins for a potion!"

\* C6: confirming a merchant offer is atomic: with coins >= cost the coins
\* decrease by exactly the cost and exactly the offer's effect is credited (3
\* coins for +5 arrows, 5 coins for +1 health bottle); with coins < cost the
\* player's coins, arrows and health bottles are unchanged and a failure
\* notification is posted. After any sequence of trades coins is not negative.
C6_TradeAtomic == [](player.coins >= 0) /\ [][C6_TradeStep]_vars

\* arrows have been bought and the potion has then been refused
C6_BoughtThenRefused ==
    /\ input.event = "RETURN"
    /\ player.dialogue_active
    /\ player.coins < 5
    /\ LastMessage(ui) = "Not enough coins for a potion!"
    /\ "Bought 5 arrows." \in Range(ui.messages)

\* the call of Player.update in which E is pressed with door d as the target
DoorKey(d) ==
    /\ pc = "sprites"
    /\ Head(todo).kind = "player"
    /\ input.pressed = { "e" }
    /\ player.can_interact
    /\ player.interact_target = [kind |-> "door", id |-> d]

\* what the interaction does to the keys and the doors
DoorOutcome(d) ==
    IF player.keys > 0
    THEN /\ player'.keys = player.keys - 1
         /\ ~doors'[d].alive
         /\ \A e \in DOMAIN doors \ { d } : doors'[e] = doors[e]
    ELSE /\ player'.keys = player.keys
         /\ doors' = doors
         /\ LastMessage(ui') = "This door is locked. You need a key."

C7_DoorStep == \A d \in DOMAIN doors : DoorKey(d) => DoorOutcome(d)

\* C7 as stated: interacting with a door when keys > 0 consumes exactly one key
\* and removes that door; interacting when keys = 0 leaves the key count and
\* the doors unchanged and posts a failure notification.
C7_DoorInteract == [][C7_DoorStep]_vars

C7_DoorCooldownStep ==
    \A d \in DOMAIN doors :
        DoorKey(d) =>
            IF now - player.last_attack_time > 500
            THEN DoorOutcome(d)
            ELSE player'.keys = player.keys /\ doors' = doors /\ ui' = ui

\* C7 amended: when more than 500 ms have passed since the player's
\* last_attack_time (the time of the last attack or door interaction),
\* interacting with a door when keys > 0 consumes exactly one key and removes
\* that door, and interacting when keys = 0 leaves keys and doors unchanged
\* and posts a failure notification; within those 500 ms the interaction
\* changes neither keys nor doors and posts nothing.
C7_DoorInteractAfterCooldown == [][C7_DoorCooldownStep]_vars

\* a door has just been opened with the player's only key
C7_DoorOpened ==
    /\ PlayerUpdated
    /\ input.pressed = { "e" }
    /\ player.keys = 0
    /\ player.last_attack_time = now
    /\ LastMessage(ui) = "The door creaks open!"
    /\ \E d \in DOMAIN doors : ~doors[d].alive /\ doors[d].keys_used = 1

\* the player stands where a removed door could be interacted with
RemovedDoorNear ==
    \E d \in DOMAIN doors :
        /\ ~doors[d].alive
        /\ colliderect(SpriteRect(player),
                       inflate(SpriteRect(doors[d]), TILE_SIZE, TILE_SIZE))

C8_DoorState ==
    /\ player.interact_target.kind = "door" =>
            /\ player.interact_target.id \in DOMAIN doors
            /\ doors[player.interact_target.id].alive
    /\ \A d \in DOMAIN doors :
            /\ doors[d].keys_used <= 1
            /\ (doors[d].alive <=> (doors[d].keys_used = 0))

C8_DoorStep ==
    /\ hist'.sessions = hist.sessions =>
            \A d \in DOMAIN doors : ~doors[d].alive => doors'[d] = doors[d]
    /\ (/\ pc = "sprites"
        /\ Head(todo).kind = "player"
        /\ input.pressed = { "e" }
        /\ RemovedDoorNear
        /\ ~player.can_interact) =>
            /\ player' = [player EXCEPT !.vx = 0, !.vy = 0]
            /\ doors' = doors /\ ui' = ui /\ merchants' = merchants

\* C8: once a door has been removed it is never again the player's
\* interaction target, it stays removed for the rest of the session, an
\* interact input at its location with no other target in reach changes
\* nothing (but for the velocity every Player.update resets), and each door
\* consumes at most one key over the whole session.
C8_RemovedDoorInert == []C8_DoorState /\ [][C8_DoorStep]_vars

\* E has been pressed again beside a door removed in an earlier tick
C8_PressedAgain ==
    /\ PlayerUpdated
    /\ input.pressed = { "e" }
    /\ RemovedDoorNear
    /\ player.last_attack_time < now
    /\ player.keys = 0

C10_PickupState ==
    /\ \A k \in DOMAIN items :
            /\ items[k].applied <= 1
            /\ (items[k].alive <=> (items[k].applied = 0))
    /\ (hist.updates >= 1 /\ BetweenTicks) =>
            \A k \in DOMAIN items :
                items[k].alive => ~colliderect(SpriteRect(player), ItemRect(items[k]))

\* the pickups of kind t that the step removes
Collected(t) ==
    { k \in DOMAIN items : items[k].alive /\ ~items'[k].alive /\ items[k].type = t }

C10_PickupStep ==
    IF pc = "update_rest"
    THEN /\ \A k \in DOMAIN items :
               items[k].alive =>
                   (items'[k].alive <=>
                        ~colliderect(SpriteRect(player), ItemRect(items[k])))
         /\ player'.coins = player.coins + Cardinality(Collected("coin"))
         /\ player'.arrows = player.arrows + 5 * Cardinality(Collected("arrows"))
         /\ player'.health_bottles =
                player.health_bottles + Cardinality(Collected("health_bottle"))
         /\ player'.keys = player.keys + Cardinality(Collected("key"))
    ELSE hist'.sessions = hist.sessions =>
            \A k \in DOMAIN items : items'[k] = items[k]

\* C10: a pickup the player overlaps in a Playing tick is removed in that tick
\* and its effect is applied exactly once (coin +1 coin, arrows +5 arrows,
\* health_bottle +1 bottle, key +1 key); no pickup's effect is applied twice
\* and no pickup is removed without its effect being applied.
C10_PickupOnce == []C10_PickupState /\ [][C10_PickupStep]_vars

\* the player has collected what a container dropped
C10_LootCollected ==
    \E k \in DOMAIN items :
        items[k].pot # 0 /\ ~items[k].alive /\ items[k].applied = 1

\* the positions of the sprites of a sequence
Positions(seq) == [k \in DOMAIN seq |-> << seq[k].x, seq[k].y >>]

\* a phase other than Playing is flagged, or the player is already dead
NotPlaying ==
    \/ player.dialogue_active
    \/ game.paused
    \/ game.game_over
    \/ hist.sessions >= 1 /\ player.health = 0

C11_PlayingOnlyStep ==
    (NotPlaying /\ hist'.sessions = hist.sessions) =>
        /\ player'.health >= player.health
        /\ player'.x = player.x /\ player'.y = player.y
        /\ player'.last_attack_time = player.last_attack_time
        /\ Len(projectiles') = Len(projectiles)
        /\ Positions(enemies') = Positions(enemies)

\* C11: player movement, player attacks, hostile movement and damage to the
\* player occur only while the phase is Playing: in no step taken while
\* dialogue_active, paused or game_over is set, or the player's health is
\* already 0, does a hostile move, the player move or attack, or the player's
\* health decrease.
C11_PlayingOnly == [][C11_PlayingOnlyStep]_vars

\* C12: every hostile that is a member of the live enemy collection has
\* health > 0, and a hostile whose health a melee or projectile hit has
\* brought to 0 or below is no member of it from that operation on (five
\* accepted hits of 10 remove a hostile of health 50).
C12_LiveHostileHealthy ==
    \A i \in DOMAIN enemies : enemies[i].alive <=> (enemies[i].health > 0)

\* the fifth sword hit has removed the hostile
C12_FifthHit ==
    /\ PlayerUpdated
    /\ input.pressed = { "SPACE" }
    /\ player.equipped_item = "sword"
    /\ player.last_attack_time = now
    /\ \E i \in DOMAIN enemies : ~enemies[i].alive /\ enemies[i].health = 0

\* the call of Player.update in which SPACE alone is held, the given item is
\* equipped and the attack cooldown has run out
AcceptedAttack(item) ==
    /\ pc = "sprites"
    /\ Head(todo).kind = "player"
    /\ input.pressed = { "SPACE" }
    /\ player.equipped_item = item
    /\ now - player.last_attack_time > 400

\* the TILE_SIZE square that shares with the player's rect the edge on the
\* side the player faces
FlushBox ==
    CASE player.direction = "up" -> Rect(player.x, player.y - 64, 64, 64)
      [] player.direction = "down" -> Rect(player.x, player.y + 64, 64, 64)
      [] player.direction = "left" -> Rect(player.x - 64, player.y, 64, 64)
      [] player.direction = "right" -> Rect(player.x + 64, player.y, 64, 64)

C13_MeleeStep ==
    AcceptedAttack("sword") =>
        /\ ~colliderect(FlushBox, SpriteRect(player))
        /\ \A i \in DOMAIN enemies :
              enemies'[i] =
                 IF enemies[i].alive /\ colliderect(FlushBox, HitRect(enemies[i]))
                 THEN [enemies[i] EXCEPT !.health = @ - 10,
                                         !.alive = (enemies[i].health - 10 > 0)]
                 ELSE enemies[i]
        /\ \A i \in DOMAIN pots :
              pots'[i].alive =
                 (pots[i].alive /\ ~colliderect(FlushBox, SpriteRect(pots[i])))
        /\ player'.last_attack_time = now

\* C13: an accepted melee attack places a TILE_SIZE square hitbox flush
\* against the side of the player's rect given by the facing direction, not
\* intersecting that rect; every live hostile whose hit rect intersects the
\* hitbox loses exactly 10 health (PLAYER_DAMAGE), every container that
\* intersects it is destroyed, no other hostile or container is affected,
\* and the cooldown timer restarts whether or not anything was hit.
C13_Melee == [][C13_MeleeStep]_vars

\* a sword attack has struck one hostile and spared another
C13_HostileStruck ==
    /\ PlayerUpdated
    /\ input.pressed = { "SPACE" }
    /\ player.equipped_item = "sword"
    /\ player.last_attack_time = now
    /\ \E i, j \in DOMAIN enemies :
          /\ enemies[i].health = ENEMY_HEALTH - PLAYER_DAMAGE
          /\ enemies[j].health = ENEMY_HEALTH

C14_RangedStep ==
    (AcceptedAttack("bow") /\ player.arrows > 0) =>
        /\ player'.arrows = player.arrows - 1
        /\ Len(projectiles') = Len(projectiles) + 1
        /\ \A j \in DOMAIN projectiles : projectiles'[j] = projectiles[j]
        /\ LET shot == projectiles'[Len(projectiles')]
           IN /\ shot.alive
              /\ shot.x + 5 = player.x + 32
              /\ shot.y + 5 = player.y + 32
              /\ << shot.vx, shot.vy >> =
                    CASE player.direction = "up" -> << 0, -10 >>
                      [] player.direction = "down" -> << 0, 10 >>
                      [] player.direction = "left" -> << -10, 0 >>
                      [] player.direction = "right" -> << 10, 0 >>

\* C14: an accepted ranged attack with arrows > 0 decreases arrows by exactly
\* 1 and adds exactly one projectile to the live collections, centred on the
\* player's centre, with speed 10 along the facing direction and velocity 0
\* on the other axis.
C14_Ranged == [][C14_RangedStep]_vars

\* an arrow has just been shot sideways
C14_ArrowShot ==
    /\ PlayerUpdated
    /\ input.pressed = { "SPACE" }
    /\ player.equipped_item = "bow"
    /\ player.last_attack_time = now
    /\ player.arrows = INITIAL_ARROWS - 1
    /\ Len(projectiles) = 1
    /\ projectiles[1].alive
    /\ projectiles[1].vx # 0

C15_EmptyBowStep ==
    (AcceptedAttack("bow") /\ player.arrows = 0) =>
        /\ Len(projectiles') = Len(projectiles)
        /\ player'.arrows = 0
        /\ LastMessage(ui') = "Out of arrows!"
        /\ player'.last_attack_time = player.last_attack_time
        /\ ~player'.attacking

\* C15: a ranged attack attempted with arrows = 0 is a no-op apart from its
\* notification: no projectile is spawned, arrows stays 0, and the attack
\* cooldown timer and the attacking flag are not touched.
C15_EmptyBow == [][C15_EmptyBowStep]_vars

\* Player.update is about to run with only the heal key held and no dialogue
\* open, so that Player.get_input calls use_health_bottle and nothing else
HealAttempt ==
    /\ pc = "sprites"
    /\ Head(todo).kind = "player"
    /\ input.pressed = { "h" }
    /\ ~player.dialogue_active

C16_HealStep ==
    HealAttempt =>
        IF player.health_bottles = 0 \/ player.health >= PLAYER_HEALTH
        THEN /\ player'.health = player.health
             /\ player'.health_bottles = player.health_bottles
             /\ LastMessage(ui') =
                    IF player.health_bottles = 0
                    THEN "No health bottles!" ELSE "Health is already full."
        ELSE /\ player'.health_bottles = player.health_bottles - 1
             /\ player'.health =
                    IF player.health + HEALTH_BOTTLE_HEAL_AMOUNT > PLAYER_HEALTH
                    THEN PLAYER_HEALTH
                    ELSE player.health + HEALTH_BOTTLE_HEAL_AMOUNT
             /\ LastMessage(ui') = "Healed for 25 HP."

\* C16: a heal request with no health bottle or with health at the maximum
\* leaves health and health_bottles unchanged and posts a notification; any
\* other heal request consumes exactly one bottle and raises health by
\* HEALTH_BOTTLE_HEAL_AMOUNT capped at PLAYER_HEALTH; health_bottles is never
\* negative.
C16_Heal == [](player.health_bottles >= 0) /\ [][C16_HealStep]_vars

\* a wounded player has drunk the last bottle and is still below the maximum
C16_Healed ==
    /\ PlayerUpdated
    /\ input.pressed = { "h" }
    /\ player.health_bottles = 0
    /\ player.health < PLAYER_HEALTH
    /\ player.health >= HEALTH_BOTTLE_HEAL_AMOUNT
    /\ LastMessage(ui) = "Healed for 25 HP."

\* a heal was refused because no bottle is left
C16_NoBottle ==
    /\ PlayerUpdated
    /\ input.pressed = { "h" }
    /\ player.health_bottles = 0
    /\ LastMessage(ui) = "No health bottles!"

\* Enemy.update of the live hostile i is about to run
HostileTurn(i) ==
    /\ pc = "sprites"
    /\ Head(todo) = [kind |-> "enemy", id |-> i]
    /\ enemies[i].alive

\* the squared distance of the centres of hostile i and the player
CentreDist2(i) ==
    (player.x - enemies[i].x) * (player.x - enemies[i].x)
    + (player.y - enemies[i].y) * (player.y - enemies[i].y)

C17_AggroStep ==
    \A i \in DOMAIN enemies :
        HostileTurn(i) =>
            Positions(enemies')[i] =
                IF /\ CentreDist2(i) <= ENEMY_AGGRO_RADIUS * ENEMY_AGGRO_RADIUS
                   /\ ~player.dialogue_active
                THEN Positions(move_towards_player(World, i).enemies)[i]
                ELSE Positions(enemies)[i]

\* C17: in a Playing tick a hostile takes its step toward the player exactly
\* when the distance of the centres is <= ENEMY_AGGRO_RADIUS and no dialogue
\* is active, also at a distance equal to the radius; otherwise its position
\* is unchanged.
C17_Aggro == [][C17_AggroStep]_vars

C18_ContactStep ==
    \A i \in DOMAIN enemies :
        HostileTurn(i) =>
            player'.health =
                IF colliderect(HitRect(enemies'[i]), HitRect(player))
                THEN (IF player.health > ENEMY_DAMAGE
                      THEN player.health - ENEMY_DAMAGE ELSE 0)
                ELSE player.health

\* C18: in every tick that runs the update, each live hostile whose hit rect,
\* after its movement, intersects the player's hit rect takes exactly
\* ENEMY_DAMAGE from the player's health (clamped at 0), and a hostile whose
\* hit rect does not intersect it takes nothing: there is no cooldown between
\* the ticks, and k such hostiles take k times ENEMY_DAMAGE in one tick.
C18_Contact == [][C18_ContactStep]_vars

\* one hostile has stayed on the player for two consecutive frames and has
\* taken ENEMY_DAMAGE in each of them
C18_TwoTicks ==
    /\ pc = "update_rest"
    /\ hist.updates = 2
    /\ now = StartMs + 2 * FrameMs
    /\ Len(enemies) = 1
    /\ enemies[1].alive
    /\ colliderect(HitRect(enemies[1]), HitRect(player))
    /\ player.health = PLAYER_HEALTH - 2 * ENEMY_DAMAGE

\* several hostiles have taken their damage in one tick
C18_ManyInOneTick ==
    /\ pc = "update_rest"
    /\ hist.updates = 1
    /\ Len(enemies) > 1
    /\ player.health = PLAYER_HEALTH - Len(enemies) * ENEMY_DAMAGE

\* the session phase the flags stand for
Phase ==
    IF pc = "start_screen" THEN "Start"
    ELSE IF game.game_over THEN "GameOver"
    ELSE IF game.paused THEN "Paused"
    ELSE IF player.dialogue_active THEN "Dialogue"
    ELSE "Playing"

PhaseTransitions ==
    { << "Start", "Playing" >>,
      << "Playing", "Paused" >>, << "Paused", "Playing" >>,
      << "Playing", "Dialogue" >>, << "Dialogue", "Playing" >>,
      << "Playing", "GameOver" >>, << "GameOver", "Playing" >> }

C19_PhaseStep == Phase' # Phase => << Phase, Phase' >> \in PhaseTransitions

\* C19: the phase changes only along Start -> Playing, Playing -> Paused,
\* Paused -> Playing, Playing -> Dialogue, Dialogue -> Playing,
\* Playing -> GameOver and GameOver -> Playing: Paused is entered only from
\* Playing, never directly from Dialogue, and GameOver only from Playing.
C19_Phases == [][C19_PhaseStep]_vars

\* what a tick without update leaves alone: the positions and health values,
\* the camera offset and the members of the collections
Frozen ==
    << player.x, player.y, player.health, player.keys, enemies, projectiles,
       camera, pots, doors, items, Len(merchants) >>

Purse == << player.coins, player.arrows, player.health_bottles >>

C20_SkipStep ==
    /\ ( /\ hist'.ticks = hist.ticks + 1
         /\ game'.paused \/ game'.game_over \/ player'.dialogue_active )
       => /\ hist'.updates = hist.updates
          /\ pc' \notin { "sprites", "update_rest" }
          /\ Frozen' = Frozen
          /\ Purse' # Purse =>
                /\ player.dialogue_active
                /\ input'.event = "RETURN"
                /\ LastMessage(ui') \in { "Bought 5 arrows.", "Bought 1 health potion." }
    /\ pc = "pause_screen" => Frozen' = Frozen /\ Purse' = Purse

\* C20: a tick in which paused, game_over or dialogue_active is set after
\* Game.events skips Game.update: the positions of the player, the hostiles
\* and the projectiles, all health values, the camera offset and the members
\* of the collections are the same after the tick, pause screen included, and
\* coins, arrows and health bottles change only by a confirmed trade of an
\* open dialogue.
C20_Skip == [][C20_SkipStep]_vars

\* a tick has passed without update while a dialogue was open and a live
\* hostile was within the aggro radius
C20_DialogueTick ==
    /\ pc = "events"
    /\ player.dialogue_active
    /\ ~game.paused
    /\ hist.ticks = hist.updates + 1
    /\ input.event # "e"
    /\ \E i \in DOMAIN enemies :
          /\ enemies[i].alive
          /\ CentreDist2(i) < ENEMY_AGGRO_RADIUS * ENEMY_AGGRO_RADIUS

\* arrows have been bought in a tick without update
C20_TradeTick ==
    /\ pc = "events"
    /\ player.dialogue_active
    /\ hist.ticks >= 1
    /\ input.event = "RETURN"
    /\ LastMessage(ui) = "Bought 5 arrows."

\* a tick has passed without update on the pause screen
C20_PauseTick ==
    /\ pc = "pause_screen"
    /\ hist.ticks = hist.updates + 1
    /\ \E i \in DOMAIN enemies : enemies[i].alive

\* the call of Player.update in which only the movement key k is held and no
\* dialogue is open
MoveKey(k) ==
    /\ pc = "sprites"
    /\ Head(todo).kind = "player"
    /\ input.pressed = { k }
    /\ ~player.dialogue_active

C21_ExitStep ==
    /\ ( /\ DialogueKey("RETURN")
         /\ ui.merchant_options[ui.selected_merchant_option + 1] = "Exit" )
       => /\ ~player'.dialogue_active
          /\ ui'.merchant_options = << >>
    /\ MoveKey("LEFT") =>
          /\ player'.direction = "left"
          /\ ObstacleRects = {} => player'.x = player.x - PLAYER_SPEED
    /\ MoveKey("UP") =>
          /\ player'.direction = "up"
          /\ ObstacleRects = {} => player'.y = player.y - PLAYER_SPEED
    /\ (AcceptedAttack("sword") \/ AcceptedAttack("bow")) /\ ~player.dialogue_active
       => player'.last_attack_time = now /\ player'.attacking
    /\ (player.dialogue_active /\ hist'.sessions = hist.sessions) =>
          /\ player'.x = player.x
          /\ player'.y = player.y
          /\ player'.direction = player.direction
          /\ player'.last_attack_time = player.last_attack_time
          /\ player'.attacking = player.attacking
          /\ Len(projectiles') = Len(projectiles)

\* C21: confirming the Exit offer of an open dialogue clears dialogue_active
\* and the offer list, and a Player.update with no dialogue open processes
\* the movement keys and the attack key; while dialogue_active is set no step
\* of the session moves or turns the player, starts an attack or spawns a
\* projectile.
C21_Exit == [][C21_ExitStep]_vars

\* the dialogue has been left by the Exit offer and the player has walked
\* away from the spawn tile in a later tick
C21_WalkedAway ==
    /\ PlayerUpdated
    /\ input.pressed = { "LEFT" }
    /\ "See you again soon!" \in Range(ui.messages)
    /\ LastMessage(ui) # "See you again soon!" \/ input.event # "RETURN"
    /\ ~player.dialogue_active
    /\ player.x = TILE_SIZE - PLAYER_SPEED

\* C22: the player's arrows, health_bottles, coins and keys are >= 0 in every
\* reachable state, whatever attacks, heals, pickups, trades and door
\* interactions have happened.
C22_CountsNonNegative ==
    /\ player.arrows >= 0
    /\ player.health_bottles >= 0
    /\ player.coins >= 0
    /\ player.keys >= 0

\* a door has been tried with no key in hand and has stayed locked
C22_LockedAtZero ==
    /\ PlayerUpdated
    /\ input.pressed = { "e" }
    /\ player.keys = 0
    /\ player.last_attack_time = now
    /\ LastMessage(ui) = "This door is locked. You need a key."
    /\ \A d \in DOMAIN doors : doors[d].alive

\* Projectile.update of the live projectile j is about to run
ProjectileTurn(j) ==
    /\ pc = "sprites"
    /\ Head(todo) = [kind |-> "projectile", id |-> j]
    /\ projectiles[j].alive

\* the rect of projectile j advanced by its velocity
Advanced(j) ==
    Rect(projectiles[j].x + projectiles[j].vx, projectiles[j].y + projectiles[j].vy,
         PROJECTILE_SIZE, PROJECTILE_SIZE)

\* the view rectangle, grown by CAMERA_KILL_MARGIN in width and in height
\* about its centre
KillZone ==
    Rect(-camera.x - CAMERA_KILL_MARGIN \div 2, -camera.y - CAMERA_KILL_MARGIN \div 2,
         SCREEN_WIDTH + CAMERA_KILL_MARGIN, SCREEN_HEIGHT + CAMERA_KILL_MARGIN)

HitsHostile(r) == \E i \in DOMAIN enemies : enemies[i].alive /\ colliderect(r, SpriteRect(enemies[i]))
HitsObstacle(r) == \E o \in ObstacleRects : colliderect(r, o)

C23_ProjectileStep ==
    /\ \A j \in DOMAIN projectiles :
          ProjectileTurn(j) =>
             /\ ProjRect(projectiles'[j]) = Advanced(j)
             /\ ( \/ HitsHostile(Advanced(j))
                  \/ HitsObstacle(Advanced(j))
                  \/ ~colliderect(KillZone, Advanced(j)) )
                => ~projectiles'[j].alive
    /\ \A j \in DOMAIN projectiles :
          j \in DOMAIN projectiles' /\ hist'.sessions = hist.sessions =>
             /\ projectiles'[j].vx = projectiles[j].vx
             /\ projectiles'[j].vy = projectiles[j].vy

C23_HitHostile ==
    \E j \in DOMAIN projectiles :
        /\ ~projectiles[j].alive
        /\ colliderect(KillZone, ProjRect(projectiles[j]))
        /\ HitsHostile(ProjRect(projectiles[j]))

C23_HitDoor ==
    \E j \in DOMAIN projectiles, d \in DOMAIN doors :
        /\ ~projectiles[j].alive
        /\ doors[d].alive
        /\ colliderect(ProjRect(projectiles[j]), SpriteRect(doors[d]))

C23_HitWall ==
    \E j \in DOMAIN projectiles, o \in Range(Walls(World)) :
        /\ ~projectiles[j].alive
        /\ colliderect(ProjRect(projectiles[j]), o)

C23_HitContainer ==
    \E j \in DOMAIN projectiles, c \in DOMAIN pots :
        /\ ~projectiles[j].alive
        /\ ~pots[c].alive
        /\ colliderect(ProjRect(projectiles[j]), SpriteRect(pots[c]))

IsPrefix(a, b) == Len(a) <= Len(b) /\ a = SubSeq(b, 1, Len(a))

\* the step ends with ui.messages.clear() behind it: the pause input of
\* Game.events followed by Game.show_pause_screen
ClearsMessages == game'.paused /\ ~game.paused

C24_MessageStep ==
    ~ClearsMessages =>
        \E d \in 0..Len(ui.messages) :
            /\ IsPrefix(SubSeq(ui.messages, d + 1, Len(ui.messages)), ui'.messages)
            /\ d > 0 => Len(ui'.messages) = MAX_MESSAGES
            /\ d > 0 => Len(ui'.messages) - (Len(ui.messages) - d) >= d

C25_PauseStep == ClearsMessages => ui'.messages = << "Game Paused" >>

\* C25: entering Paused from a running session clears the notifications:
\* once paused is set the list holds the pause notice of this pause and none
\* of the notifications posted before the pause input.
C25_PauseClears ==
    [](game.paused => ui.messages = << "Game Paused" >>) /\ [][C25_PauseStep]_vars

\* the session has been paused after the bow was equipped, which was
\* notified
C25_PausedAfterNotice ==
    /\ pc = "pause_screen"
    /\ game.paused
    /\ input.event = "ESCAPE"
    /\ player.equipped_item = "bow"
    /\ "Equipped Bow." \notin Range(ui.messages)

\* the session the start screen opens: Game.new on the Game object as
\* Game.__init__ left it
FirstSession == new(StartWorld(level_file), level_file)

C26_RespawnStep ==
    (hist.sessions >= 1 /\ hist'.sessions = hist.sessions + 1) =>
        /\ player'.health = 100
        /\ player'.coins = 0
        /\ player'.arrows = 5
        /\ player'.health_bottles = 1
        /\ player'.keys = 0
        /\ ~player'.dialogue_active
        /\ player' = FirstSession.player
        /\ enemies' = FirstSession.enemies
        /\ pots' = FirstSession.pots
        /\ doors' = FirstSession.doors
        /\ merchants' = FirstSession.merchants
        /\ items' = FirstSession.items
        /\ projectiles' = FirstSession.projectiles
        /\ camera' = FirstSession.camera
        /\ game'.playing /\ ~game'.paused /\ ~game'.game_over

\* C26: a respawn from GameOver yields the session the start screen opened:
\* the player, the hostiles, containers, doors, merchants, items and
\* projectiles and the camera are those Game.new builds from the level file,
\* nothing of the session before remains, the player has health 100, 0 coins,
\* 5 arrows, 1 health bottle, 0 keys and no dialogue, and paused and game_over
\* are false. (The notification list belongs to the UI and is kept.)
C26_Respawn == [][C26_RespawnStep]_vars

\* the player has fallen with an arrow in flight and has respawned
C26_Respawned ==
    /\ hist.sessions = 2
    /\ pc = "events"
    /\ hist.updates = 0
    /\ "Thwip!" \in Range(ui.messages)
    /\ LastMessage(ui) = "You have fallen!"
    /\ projectiles = << >>

SameSession == hist'.sessions = hist.sessions

\* the step evaluates an interaction with door d: the door opens or the
\* refusal is notified
DoorEvaluated(d) == DoorKey(d) /\ (doors' # doors \/ ui'.messages # ui.messages)

C27_CooldownStep ==
    SameSession =>
        /\ \A m \in DOMAIN merchants :
              /\ merchants'[m].last_interact_time >= merchants[m].last_interact_time
              /\ merchants'[m].dialogue_open # merchants[m].dialogue_open =>
                    /\ now' - merchants[m].last_interact_time > 500
                    /\ merchants'[m].last_interact_time = now'
        /\ player'.last_attack_time >= player.last_attack_time
        /\ \A d \in DOMAIN doors :
              DoorEvaluated(d) =>
                    /\ now' - player.last_attack_time > 500
                    /\ player'.last_attack_time = now'

C27_ToggledTwice ==
    \E m \in DOMAIN merchants :
        /\ ~merchants[m].dialogue_open
        /\ merchants[m].last_interact_time = now
        /\ LastMessage(ui) = "Farewell!"

\* the centre of the player's rect
PlayerCentre == << player.x + TILE_SIZE \div 2, player.y + TILE_SIZE \div 2 >>

C28_CameraStep ==
    (pc = "update_rest" /\ SameSession) =>
        /\ camera'.x = SCREEN_WIDTH \div 2 - (player'.x + TILE_SIZE \div 2)
        /\ camera'.y = SCREEN_HEIGHT \div 2 - (player'.y + TILE_SIZE \div 2)

\* C28: Game.update leaves the view offset at (SCREEN_WIDTH/2 - centerx,
\* SCREEN_HEIGHT/2 - centery) of the player's rect, unclamped, and between
\* ticks, once a session has had an update, the offset is the one for the
\* player's position and Camera.get_rect() is the SCREEN_WIDTH x SCREEN_HEIGHT
\* rectangle at the negated offset, whose centre is the player's centre.
C28_Camera ==
    /\ [][C28_CameraStep]_vars
    /\ []((BetweenTicks /\ hist.updates >= 1) =>
            /\ camera.x = SCREEN_WIDTH \div 2 - PlayerCentre[1]
            /\ camera.y = SCREEN_HEIGHT \div 2 - PlayerCentre[2]
            /\ CameraGetRect(World).w = SCREEN_WIDTH
            /\ CameraGetRect(World).h = SCREEN_HEIGHT
            /\ CameraGetRect(World).x + SCREEN_WIDTH \div 2 = PlayerCentre[1]
            /\ CameraGetRect(World).y + SCREEN_HEIGHT \div 2 = PlayerCentre[2])

\* the player has walked left of the world origin and the view has followed
C28_FollowedLeft ==
    /\ pc = "events"
    /\ hist.updates >= 1
    /\ player.x < 0
    /\ camera.x > SCREEN_WIDTH \div 2 - TILE_SIZE \div 2

\* C29: in every reachable state a merchant's dialogue_open agrees with the
\* player's dialogue_active: a merchant is open only while the dialogue is
\* active, and an active dialogue is the dialogue of an open merchant; once
\* the dialogue has been closed by the Exit offer or by pausing, the merchant
\* is closed.
C29_MerchantAgrees ==
    /\ \A m \in DOMAIN merchants : merchants[m].dialogue_open => player.dialogue_active
    /\ player.dialogue_active => \E m \in DOMAIN merchants : merchants[m].dialogue_open

C30_DeadHostileStep ==
    SameSession =>
        \A i \in DOMAIN enemies :
            ~enemies[i].alive =>
                /\ Positions(enemies')[i] = Positions(enemies)[i]
                /\ ( pc = "sprites" /\ Head(todo) = [kind |-> "enemy", id |-> i] )
                   => player'.health = player.health

\* C30: a hostile whose health has reached 0 or below has no further effect:
\* from its removal on, the rest of the tick in which the player killed it
\* included, it does not move and takes nothing from the player's health.
C30_DeadHostile == [][C30_DeadHostileStep]_vars

\* the call of Player.update in which SPACE is held with the cooldown run out
AttackAccepted == AcceptedAttack("sword") \/ AcceptedAttack("bow")

C31_AttackTimerStep ==
    SameSession =>
        /\ AttackAccepted => player'.last_attack_time = now
        /\ ~AttackAccepted => player'.last_attack_time = player.last_attack_time

\* C31: the attack cooldown is measured from the player's previous accepted
\* attack only: an accepted attack records its time in last_attack_time, and
\* no other step of a session, a door interaction in particular, writes that
\* timer and so delays the next attack.
C31_AttackTimer == [][C31_AttackTimerStep]_vars

C32_RemovedStep ==
    \A j \in DOMAIN projectiles :
        ProjectileTurn(j) =>
           /\ ~colliderect(KillZone, Advanced(j)) =>
                 /\ \A i \in DOMAIN enemies : enemies'[i].health = enemies[i].health
                 /\ \A c \in DOMAIN pots : pots'[c].alive = pots[c].alive
           /\ HitsHostile(Advanced(j)) =>
                 \A c \in DOMAIN pots : pots'[c].alive = pots[c].alive

\* C32: a projectile removed during its update has no further effect in that
\* update: when it is removed for having left the inflated view rectangle it
\* damages no hostile and destroys no container, and when it is removed for
\* hitting a hostile it destroys no container.
C32_Removed == [][C32_RemovedStep]_vars

LiveProjectile == \E j \in DOMAIN projectiles : projectiles[j].alive

\* C33: while Playing ticks keep occurring a live projectile is eventually
\* removed, whether the player stands, walks away from it or walks after it
\* (5 px per tick against the projectile's 10).
C33_EventuallyRemoved == LiveProjectile ~> ~LiveProjectile

\* the arrow, shot downward, has been removed more than half a screen below
\* the player although the player walked after it in every tick of its flight
C33_Outrun ==
    /\ ~LiveProjectile
    /\ projectiles # << >>
    /\ projectiles[1].vy > 0
    /\ projectiles[1].y - player.y > SCREEN_HEIGHT \div 2
    /\ player.y = TILE_SIZE * EmptyLevel.player_spawn.y + PLAYER_SPEED * (hist.updates - 2)

\* the cursor of the merchant dialogue and the offer under it
Cursor == ui.selected_merchant_option
Offer == ui.merchant_options[Cursor + 1]

C34_CursorValid ==
    player.dialogue_active =>
        /\ ui.merchant_options # << >>
        /\ Cursor \in 0..(Len(ui.merchant_options) - 1)

\* the step of Game.run that handles a KEYDOWN of key k while no dialogue is
\* open
IdleKey(k) ==
    /\ pc = "events"
    /\ game.playing
    /\ ~player.dialogue_active
    /\ hist'.ticks = hist.ticks + 1
    /\ input'.event = k

C34_CursorStep ==
    /\ (~player.dialogue_active /\ player'.dialogue_active /\ SameSession) =>
          /\ ui'.merchant_options # << >>
          /\ ui'.selected_merchant_option = 0
    /\ DialogueKey("DOWN") =>
          /\ ui'.merchant_options = ui.merchant_options
          /\ ui'.selected_merchant_option =
                IF Cursor = Len(ui.merchant_options) - 1 THEN 0 ELSE Cursor + 1
    /\ DialogueKey("UP") =>
          /\ ui'.merchant_options = ui.merchant_options
          /\ ui'.selected_merchant_option =
                IF Cursor = 0 THEN Len(ui.merchant_options) - 1 ELSE Cursor - 1
    /\ DialogueKey("RETURN") =>
          /\ LastMessage(ui') \in
                CASE Offer = "Arrows (3 Coins)" ->
                        { "Bought 5 arrows.", "Not enough coins for arrows!" }
                  [] Offer = "Potion (5 Coins)" ->
                        { "Bought 1 health potion.", "Not enough coins for a potion!" }
                  [] Offer = "Exit" -> { "See you again soon!" }
          /\ Offer # "Arrows (3 Coins)" => player'.arrows = player.arrows
          /\ Offer # "Potion (5 Coins)" => player'.health_bottles = player.health_bottles
          /\ Offer # "Exit" =>
                /\ player'.dialogue_active
                /\ ui'.merchant_options = ui.merchant_options
                /\ ui'.selected_merchant_option = Cursor
    /\ (IdleKey("UP") \/ IdleKey("DOWN") \/ IdleKey("RETURN")) =>
          /\ ui' = ui
          /\ player' = player

\* C34: while the merchant dialogue is open the cursor is a valid index into
\* the (non-empty) offer list; the step that opens the dialogue leaves the
\* cursor at 0, cursor-down moves it to the next offer and from the last to
\* the first, cursor-up to the previous offer and from the first to the last,
\* a confirm has the effect of the offer under the cursor and of no other
\* offer, and a cursor or confirm key event with no dialogue open changes
\* neither the dialogue state nor the player.
C34_Cursor == []C34_CursorValid /\ [][C34_CursorStep]_vars

\* the cursor has gone from the first offer up to the last and down to the
\* first again
C34_Wrapped ==
    /\ player.dialogue_active
    /\ Cursor = 0
    /\ input.event = "DOWN"
    /\ hist.ticks = 3

C35_NoNewSessionStep == ~game.running => hist'.sessions = hist.sessions

\* C35: once an exit or quit request has set running to false, Game.new is
\* not called again: no later step starts a session.
C35_NoNewSession == [][C35_NoNewSessionStep]_vars

\* the objects of the editor's level that lie on tile (x, y)
ObjectsOn(data, x, y) ==
    Len(SelectSeq(data.walls, LAMBDA w : WallCovers(w, x, y)))
    + Len(SelectSeq(data.pots, LAMBDA o : OnTile(o, x, y)))
    + Len(SelectSeq(data.enemies, LAMBDA o : OnTile(o, x, y)))
    + Len(SelectSeq(data.merchants, LAMBDA o : OnTile(o, x, y)))
    + Len(SelectSeq(data.doors, LAMBDA o : OnTile(o, x, y)))
    + Len(SelectSeq(data.keys, LAMBDA o : OnTile(o, x, y)))

\* the tiles that hold an object of the editor's level
UsedTiles(data) ==
    { Tile(w.x, w.y) : w \in Range(data.walls) }
    \cup { Tile(o.x, o.y) :
             o \in Range(data.pots) \cup Range(data.enemies) \cup Range(data.merchants)
                   \cup Range(data.doors) \cup Range(data.keys) }

InMap(data, x, y) == 0 <= x /\ x < data.map_width /\ 0 <= y /\ y < data.map_height

C36_TilesValid ==
    /\ \A t \in UsedTiles(editor.level_data) :
          /\ ObjectsOn(editor.level_data, t.x, t.y) <= 1
          /\ InMap(editor.level_data, t.x, t.y)
    /\ \A k \in DOMAIN editor.level_data.walls :
          editor.level_data.walls[k].w = 1 /\ editor.level_data.walls[k].h = 1

\* the tile under the mouse in the MOUSEBUTTONDOWN event the step handles
ClickX == (editor'.last_event.pos[1] - editor.camera_x) \div TILE_SIZE
ClickY == (editor'.last_event.pos[2] - editor.camera_y) \div TILE_SIZE

\* the step handles a MOUSEBUTTONDOWN event of the given button with the menu
\* closed
Click(button) ==
    /\ editor'.events = editor.events + 1
    /\ editor'.last_event.type = "MOUSEBUTTONDOWN"
    /\ editor'.last_event.button = button
    /\ ~editor.menu_open

C36_EditStep ==
    /\ (Click(1) /\ ~InMap(editor.level_data, ClickX, ClickY)) =>
          editor'.level_data = editor.level_data
    /\ (Click(1) /\ InMap(editor.level_data, ClickX, ClickY)
            /\ editor.selected_tool \notin { "erase", "player" }) =>
          ObjectsOn(editor'.level_data, ClickX, ClickY) = 1
    /\ (Click(3) \/ (Click(1) /\ editor.selected_tool = "erase")) =>
          ObjectsOn(editor'.level_data, ClickX, ClickY) = 0

\* C36: in the level editor, started on an empty level, after any sequence
\* of placements and erasures every tile holds at most one object among
\* walls, pots, enemies, merchants, doors and keys and every object lies
\* inside the map; a placement outside the map changes nothing, a placement
\* inside it leaves exactly the placed object on the tile, and an erasure
\* leaves no object on the tile.
C36_Tiles == []C36_TilesValid /\ [][C36_EditStep]_vars

\* a pot has just been placed on a tile that held another object, which the
\* placement removed
C36_Replaced ==
    /\ editor.last_event.type = "MOUSEBUTTONDOWN"
    /\ editor.last_event.button = 1
    /\ editor.selected_tool = "pot"
    /\ editor.removed = 1
    /\ editor.level_data.walls = << >>
    /\ Len(editor.level_data.pots) = 1

\* the step handles a KEYDOWN event of the given key with the menu closed
ScrollKey(key) ==
    /\ editor'.events = editor.events + 1
    /\ editor'.last_event.type = "KEYDOWN"
    /\ editor'.last_event.key = key
    /\ ~editor.menu_open

\* the camera offsets the map edges allow
MinCameraX == -(editor.map_width_pixels - SCREEN_WIDTH)
MinCameraY == -(editor.map_height_pixels - SCREEN_HEIGHT)

C37_ScrollStep ==
    (editor.map_width_pixels >= SCREEN_WIDTH /\ editor.map_height_pixels >= SCREEN_HEIGHT) =>
        /\ ScrollKey("LEFT") =>
              /\ editor'.camera_x = Min(editor.camera_x + SCROLL_TILES * TILE_SIZE, 0)
              /\ editor'.camera_y = editor.camera_y
        /\ ScrollKey("RIGHT") =>
              /\ editor'.camera_x = Max(editor.camera_x - SCROLL_TILES * TILE_SIZE, MinCameraX)
              /\ editor'.camera_y = editor.camera_y
        /\ ScrollKey("UP") =>
              /\ editor'.camera_y = Min(editor.camera_y + SCROLL_TILES * TILE_SIZE, 0)
              /\ editor'.camera_x = editor.camera_x
        /\ ScrollKey("DOWN") =>
              /\ editor'.camera_y = Max(editor.camera_y - SCROLL_TILES * TILE_SIZE, MinCameraY)
              /\ editor'.camera_x = editor.camera_x
        /\ editor'.camera_x \in MinCameraX..0
        /\ editor'.camera_y \in MinCameraY..0

\* C37: in the level editor, on a map at least as large as the window and
\* with the tool menu closed, an arrow key moves the camera by SCROLL_TILES
\* tiles on its axis, stopped only by the map edge, and leaves the other
\* axis alone; camera_x stays in [-(map_width_pixels - SCREEN_WIDTH), 0] and
\* camera_y in [-(map_height_pixels - SCREEN_HEIGHT), 0]. In particular Down
\* pressed at camera_y = 0 on a map taller than the window makes camera_y
\* negative.
C37_Scroll == [][C37_ScrollStep]_vars
====
